---- MODULE Spec2Model ----
(***************************************************************************)
(* Model of stylelint-lsp's BufferedMessageQueue                           *)
(* (src/src/buffered-message-queue.ts) together with the registrations     *)
(* made by registerValidateHandlers (validate.ts) and                      *)
(* registerCommandHandlers (src/src/commands.ts).                          *)
(***************************************************************************)
EXTENDS Integers, Sequences, FiniteSets, TLC

\* ------------------------------------------------------------------ bounds
MaxMsgs == 3          \* messages enqueued in one behaviour
MaxVersion == 1       \* highest document version reached
MaxSpans == 4         \* spans in a diff
MaxSpanLen == 1       \* characters in a span
MaxLintCalls == 3     \* calls of a lint function in one behaviour
MaxResolves == 3      \* calls of Settings.resolve in one behaviour
MaxLines == 2         \* lines of a document
MaxPending == 1       \* handlers waiting at an await at one time
MaxDiagnostics == 2   \* diagnostics in the context of a code-action request

\* --------------------------------------------------------------- constants
Uris == {"file://path/to/file"}
\* The uris Settings is asked about
LintUris == {"file://path/to/file", "file://path/to/other"}
Versions == 0 .. MaxVersion
MsgIds == 1 .. MaxMsgs

ValidateMethod == "stylelint/validate"
ExecuteCommandMethod == "workspace/executeCommand"
TestMethod == "test"
Methods == {ValidateMethod, ExecuteCommandMethod, TestMethod}

\* A method without a registration
NoReg == [handler |-> "none", versionLens |-> "none"]

\* The two shapes of VersionLens a registration can supply: one that reads
\* the version field of the param it is given, one that looks the document
\* up in the document store.
LensKinds == {"paramVersion", "storeVersion"}
\* The server registers param-reading lenses; registrations on the test method
\* supply the one that consults the store.
TestLenses == {"storeVersion"}

\* Handlers: the two of the server, and a synchronous and an asynchronous
\* handler registered on the test method.
SyncHandler == "syncHandler"
AsyncHandler == "asyncHandler"
ValidateHandler == "validate"
ExecuteCommandHandler == "executeCommand"

RequestCancelled == "RequestCancelled"

\* What a handler returns or its thenable fulfils with, and what a thenable
\* rejects with
Values == {"undefined", "V"}
Errors == {"E1", "E2"}
Settlements ==
  [kind : {"fulfilled"}, value : Values] \cup [kind : {"rejected"}, value : Errors]
\* a promise of no value (an async function without a return) and one error
PlainSettlements ==
  {[kind |-> "fulfilled", value |-> "undefined"], [kind |-> "rejected", value |-> "E1"]}

VARIABLES
  queue,                \* this.queue: pending Messages
  timer,                \* this.timer is set
  immediates,           \* setImmediate callbacks armed and not yet run
  requestHandlers,      \* this.requestHandlers
  notificationHandlers, \* this.notificationHandlers
  documents,            \* the document store: uri -> current version
  cancelled,            \* requests whose token.isCancellationRequested
  thenables,            \* results of async request handlers, not yet settled
  nextId,               \* identity of the next message enqueued
  drained,              \* log of popQueue: the message removed, and what the
                        \* registered lens, the store and the token said then
  invoked,              \* ids whose handler was invoked
  calls,                \* per request: resolve / reject callbacks invoked
  arrivalVersion,       \* per message: store version of its document at arrival
  results,              \* per request: what its handler returned (kind "value")
                        \* or what the returned thenable settled with
  args,                 \* per request: the argument of each callback in calls
  dispatched,           \* per message: the handler popQueue called for it
  lastRequestRegistration,      \* per method: the last onRequest(handler, lens)
  lastNotificationRegistration  \* per method: the last onNotification(handler, lens)

queueVars == <<queue, timer, immediates, requestHandlers, notificationHandlers,
               documents, cancelled, thenables, nextId, drained, invoked, calls,
               arrivalVersion, results, args, dispatched,
               lastRequestRegistration, lastNotificationRegistration>>

\* autoFix (validate.ts)
VARIABLES
  fixPc,                \* "idle", "ready", "linting" (awaiting lint), "done"
  originalText,         \* document.getText()
  ignored,              \* result.ignored of the linter's result
  output,               \* output of the linter's result
  diff,                 \* what fastDiff(originalText, output) returns
  diffCalls,            \* number of calls of fastDiff
  edits                 \* the changes autoFix returns, in offsets

fixVars == <<fixPc, originalText, ignored, output, diff, diffCalls, edits>>

\* Settings.lintFunc (settings.ts)
VARIABLES
  failedDocuments,      \* this.failedDocuments
  lintCalls,            \* the calls of lint functions, in order
  thrown,               \* uris whose linter threw since the last clearFailedDocuments
  lintOutcomes          \* how validate / autoFix went on with what a call returned

lintVars == <<failedDocuments, lintCalls, thrown, lintOutcomes>>

\* Settings (settings.ts)
VARIABLES
  supportsConfigurationRequests,  \* this.supportsConfigurationRequests
  globalSettings,                 \* this.globalSettings
  documentToSettings,             \* this.documentToSettings: uri -> promise
  promiseValue,                   \* per promise made by resolve: its value, once fulfilled
  nextPromise,                    \* identity of the next promise resolve makes
  getConfigurationCalls,          \* arguments of connection.workspace.getConfiguration
  resolveCalls,                   \* calls of resolve: the uri and what was returned
  sent                            \* what the client last sent as its settings

settingsVars == <<supportsConfigurationRequests, globalSettings, documentToSettings,
                  promiseValue, nextPromise, getConfigurationCalls, resolveCalls,
                  sent>>

\* the code-action handler (commands.ts)
VARIABLES
  caPc,                 \* "idle", "ready" (a request arrived), "done"
  caParams,             \* the request, and what the store and the settings hold
  caResult              \* what the handler returned

codeActionVars == <<caPc, caParams, caResult>>

\* the handlers of validate.ts and commands.ts
VARIABLES
  config,               \* what settings.resolve(document) fulfils with
  opened,               \* uris of the documents in the store (TextDocuments)
  needsValidation,      \* the Set needsValidation
  pending,              \* handlers waiting at an await
  lints,                \* calls of the linter: by which handler, and the fix option
  applyEdits,           \* connection.workspace.applyEdit calls, in order
  answers,              \* the client's answers to applyEdit, in order
  validations,          \* the handlers that called validateDocument or validateAll
  notified,             \* params of the last didChangeConfiguration notification
  linting,              \* validate calls waiting for the linter, with the version read
  published             \* per uri, the last connection.sendDiagnostics

serverVars == <<config, opened, needsValidation, pending, lints, applyEdits,
                answers, validations, notified, linting, published>>

restVars == <<settingsVars, codeActionVars, serverVars>>

nonQueueVars == <<fixVars, lintVars, restVars>>

vars == <<queueVars, fixVars, lintVars, restVars>>

\* ----------------------------------------------------------------- helpers

\* isThenable(result): the handlers that return a promise
isThenable(handler) == handler \in {AsyncHandler, ExecuteCommandHandler, ValidateHandler}

\* Reading param.version: a param that is the store's own TextDocument object
\* reads the live version, a deserialized identifier reads its own field.
ParamVersion(param) ==
  IF param.live THEN documents[param.uri] ELSE param.version

\* Applying a registered VersionLens to a param
VersionLens(lens, param) ==
  IF lens = "storeVersion" THEN documents[param.uri] ELSE ParamVersion(param)

\* A queued Request
RequestVersionZero(id, method, param, lens) ==
  [id |-> id, isRequest |-> TRUE, method |-> method, param |-> param,
   documentVersion |-> 0]
Request(id, method, param, lens) ==
  [id |-> id, isRequest |-> TRUE, method |-> method, param |-> param,
   documentVersion |-> VersionLens(lens, param)]

\* A queued Notification
Notification(id, method, param, documentVersion) ==
  [id |-> id, isRequest |-> FALSE, method |-> method, param |-> param,
   documentVersion |-> documentVersion]

\* this.queue.push(message)
PushShifted(q, message) == Tail(Append(q, message))
Push(q, message) == Append(q, message)

\* this.queue.shift(): the message removed and what remains
ShiftLast(q) == [message |-> q[Len(q)], rest |-> SubSeq(q, 1, Len(q) - 1)]
ShiftAll(q) == [message |-> Head(q), rest |-> <<>>]
Shift(q) == [message |-> Head(q), rest |-> Tail(q)]

\* next(): whether it arms a setImmediate callback
nextArmsIgnoringTimer(t, q) == q # <<>>
nextArms(t, q) == ~t /\ q # <<>>

\* state of timer / immediates after next() ran with timer t, i armed, queue q
nextTimer(t, q) == t \/ nextArms(t, q)
nextImmediates(t, i, q) == IF nextArms(t, q) THEN i + 1 ELSE i

\* The param of a message of the client: a deserialized identifier carrying
\* the version the client knows, which is the store's
StaticParam(uri) == [uri |-> uri, live |-> FALSE, version |-> documents[uri]]
\* The param validateDocument passes: the store's own document object
LiveParam(uri) == [uri |-> uri, live |-> TRUE, version |-> 0]

\* Map.set(method, {handler, versionLens})
setRegistrationIfAbsent(map, method, registration) ==
  IF map[method] = NoReg THEN [map EXCEPT ![method] = registration] ELSE map
setRegistration(map, method, registration) ==
  [map EXCEPT ![method] = registration]

\* The callbacks popQueue attaches to a thenable (value => message.resolve(value),
\* error => message.reject(error)) and the direct message.resolve(result):
\* the callback of the request that is called, and its argument
thenCallbackWrapsError(kind, value) ==
  [callback |-> IF kind = "rejected" THEN "reject" ELSE "resolve",
   arg |-> IF kind = "rejected" THEN "ResponseError" ELSE value]
thenCallback(kind, value) ==
  [callback |-> IF kind = "rejected" THEN "reject" ELSE "resolve",
   arg |-> value]

\* ------------------------------------------------------------------- Init
\* index.ts: new BufferedMessageQueue(connection), then
\* registerValidateHandlers and registerCommandHandlers.
\* uris: the documents the client works on
QueueInitFor(uris) ==
  /\ queue = <<>>
  /\ timer = FALSE
  /\ immediates = 0
  /\ requestHandlers =
       [m \in Methods |->
          IF m = ExecuteCommandMethod
          THEN [handler |-> ExecuteCommandHandler, versionLens |-> "paramVersion"]
          ELSE NoReg]
  /\ notificationHandlers =
       [m \in Methods |->
          IF m = ValidateMethod
          THEN [handler |-> ValidateHandler, versionLens |-> "paramVersion"]
          ELSE NoReg]
  /\ documents = [u \in uris |-> 0]
  /\ cancelled = {}
  /\ thenables = {}
  /\ nextId = 1
  /\ drained = <<>>
  /\ invoked = {}
  /\ calls = [i \in MsgIds |-> <<>>]
  /\ arrivalVersion = [i \in MsgIds |-> 0]
  /\ results = [i \in MsgIds |-> <<>>]
  /\ args = [i \in MsgIds |-> <<>>]
  /\ dispatched = [i \in MsgIds |-> "none"]
  /\ lastRequestRegistration = requestHandlers
  /\ lastNotificationRegistration = notificationHandlers

QueueInit == QueueInitFor(Uris)

\* autoFix is not running
FixIdle ==
  /\ fixPc = "idle"
  /\ originalText = <<>>
  /\ ignored = FALSE
  /\ output = <<>>
  /\ diff = <<>>
  /\ diffCalls = 0
  /\ edits = <<>>

\* Settings.constructor
LintInit ==
  /\ failedDocuments = {}
  /\ lintCalls = <<>>
  /\ thrown = {}
  /\ lintOutcomes = {}

\* ------------------------------------------------------------------ Settings
\* defaultClientSettings
defaultClientSettings ==
  [autoFixOnFormat |-> FALSE,
   autoFixOnSave |-> FALSE,
   config |-> "undefined",
   configFile |-> "undefined",
   configOverrides |-> "undefined",
   enable |-> TRUE,
   validateOnSave |-> TRUE,
   validateOnType |-> TRUE]

\* The settings a client sends (params.settings.stylelintplus, or the answer to
\* getConfiguration): any part of the keys
NoOverrides == [k \in {} |-> TRUE]
ClientSettingsSent ==
  {NoOverrides,
   [autoFixOnSave |-> TRUE, validateOnSave |-> FALSE]}

\* { ...defaults, ...overrides }
Spread(defaults, overrides) ==
  [k \in DOMAIN defaults \cup DOMAIN overrides |->
     IF k \in DOMAIN overrides THEN overrides[k] ELSE defaults[k]]

\* this.lintFunc(uri, stylelint), by what it closes over
lintFunc(uri, stylelint) == [uri |-> uri, stylelint |-> stylelint]

\* promises are known by their number, from 1; no promise: undefined
NoPromise == 0
\* a promise not made yet, and one made and not yet fulfilled
Unmade == [state |-> "unmade", value |-> NoOverrides]
Pending == [state |-> "pending", value |-> NoOverrides]
PromiseIds == 1 .. MaxResolves

\* Settings.constructor
SettingsInit ==
  /\ supportsConfigurationRequests = FALSE
  /\ globalSettings = Spread(defaultClientSettings, NoOverrides)
  /\ documentToSettings = [u \in LintUris |-> NoPromise]
  /\ promiseValue = [p \in PromiseIds |-> Unmade]
  /\ nextPromise = 1
  /\ getConfigurationCalls = <<>>
  /\ resolveCalls = <<>>
  /\ sent = NoOverrides

\* no code-action request
CodeActionIdle ==
  /\ caPc = "idle"
  /\ caParams = <<>>
  /\ caResult = <<>>

\* The client settings a document resolves to
Configs ==
  [enable : BOOLEAN, validateOnSave : BOOLEAN, validateOnType : BOOLEAN,
   autoFixOnSave : BOOLEAN, autoFixOnFormat : BOOLEAN]
ConfigKeys ==
  {"enable", "validateOnSave", "validateOnType", "autoFixOnSave", "autoFixOnFormat"}
ConfigOf(settings) == [k \in ConfigKeys |-> settings[k]]

\* a didChangeConfiguration notification without a stylelintplus section
NoSection == [present |-> FALSE, stylelintplus |-> NoOverrides]

\* what sendDiagnostics last published for a document: nothing yet, the empty
\* list without linting ("cleared"), or the diagnostics of a version
NotPublished == [version |-> 0, diagnostics |-> "none"]
Cleared == [version |-> 0, diagnostics |-> "cleared"]

\* registerValidateHandlers / registerCommandHandlers have run, no document is
\* open and no event has arrived; every document resolves to the settings c
ServerIdle(c) ==
  /\ config = c
  /\ opened = {}
  /\ needsValidation = {}
  /\ pending = {}
  /\ lints = {}
  /\ applyEdits = <<>>
  /\ answers = <<>>
  /\ validations = {}
  /\ notified = NoSection
  /\ linting = {}
  /\ published = [u \in DOMAIN documents |-> NotPublished]

RestInit == SettingsInit /\ CodeActionIdle /\ ServerIdle(ConfigOf(defaultClientSettings))

Init == QueueInit /\ FixIdle /\ LintInit /\ RestInit

\* ----------------------------------------------------------------- popQueue
\* What popQueue decides for the message it shifted off the queue:
\*   reject  - message.reject(new ResponseError(RequestCancelled, ...))
\*   invoke  - handler(message.param, ...) is called
\*   next    - control reaches the trailing this.next()
Decision(reject, invoke, next) ==
  [reject |-> reject, invoke |-> invoke, next |-> next]

\* popQueueRequest without the version check
popQueueRequestNoVersionCheck(message) ==
  IF message.id \in cancelled
  THEN Decision(TRUE, FALSE, FALSE)
  ELSE IF requestHandlers[message.method] = NoReg
  THEN Decision(FALSE, FALSE, FALSE)
  ELSE Decision(FALSE, TRUE, TRUE)
\* popQueueRequest without the token check
popQueueRequestNoTokenCheck(message) ==
  IF requestHandlers[message.method] = NoReg
  THEN Decision(FALSE, FALSE, FALSE)
  ELSE IF message.documentVersion #
            VersionLens(requestHandlers[message.method].versionLens, message.param)
  THEN Decision(TRUE, FALSE, FALSE)
  ELSE Decision(FALSE, TRUE, TRUE)
\* popQueueRequest whose cancelled branch rejects and falls through
popQueueRequestNoReturn(message) ==
  IF requestHandlers[message.method] = NoReg
  THEN Decision(FALSE, FALSE, FALSE)
  ELSE IF message.documentVersion #
            VersionLens(requestHandlers[message.method].versionLens, message.param)
  THEN Decision(TRUE, FALSE, FALSE)
  ELSE Decision(message.id \in cancelled, TRUE, TRUE)
\* popQueueRequest that starts the next drain only after a synchronous handler
popQueueRequestAwaitsHandler(message) ==
  IF message.id \in cancelled
  THEN Decision(TRUE, FALSE, FALSE)
  ELSE IF requestHandlers[message.method] = NoReg
  THEN Decision(FALSE, FALSE, FALSE)
  ELSE IF message.documentVersion #
            VersionLens(requestHandlers[message.method].versionLens, message.param)
  THEN Decision(TRUE, FALSE, FALSE)
  ELSE Decision(FALSE, TRUE, ~isThenable(requestHandlers[message.method].handler))
popQueueRequest(message) ==
  IF message.id \in cancelled
  THEN Decision(TRUE, FALSE, FALSE)
  ELSE IF requestHandlers[message.method] = NoReg
  THEN Decision(FALSE, FALSE, FALSE)
  ELSE IF message.documentVersion #
            VersionLens(requestHandlers[message.method].versionLens, message.param)
  THEN Decision(TRUE, FALSE, FALSE)
  ELSE Decision(FALSE, TRUE, TRUE)

\* popQueueNotification without the version check
popQueueNotificationNoVersionCheck(message) ==
  IF notificationHandlers[message.method] = NoReg
  THEN Decision(FALSE, FALSE, FALSE)
  ELSE Decision(FALSE, TRUE, TRUE)
popQueueNotification(message) ==
  IF notificationHandlers[message.method] = NoReg
  THEN Decision(FALSE, FALSE, FALSE)
  ELSE IF message.documentVersion #
            VersionLens(notificationHandlers[message.method].versionLens, message.param)
  THEN Decision(FALSE, FALSE, FALSE)
  ELSE Decision(FALSE, TRUE, TRUE)

popQueue(message) ==
  IF message.isRequest THEN popQueueRequest(message)
  ELSE popQueueNotification(message)

\* The handler popQueue looks up for a message
handlerOf(message) ==
  IF message.isRequest THEN requestHandlers[message.method].handler
  ELSE notificationHandlers[message.method].handler

\* What an observer of popQueue sees when the message is removed: whether a
\* handler is registered for it, whether the registered lens still returns the
\* version stored in the message, whether the store's version of the document
\* changed since the message arrived, and the state of the token.
registrationOf(message) ==
  IF message.isRequest THEN requestHandlers[message.method]
  ELSE notificationHandlers[message.method]

Observed(message) ==
  [id |-> message.id,
   isRequest |-> message.isRequest,
   method |-> message.method,
   registered |-> registrationOf(message) # NoReg,
   current |-> /\ registrationOf(message) # NoReg
               /\ message.documentVersion =
                    VersionLens(registrationOf(message).versionLens, message.param),
   storeChanged |-> documents[message.param.uri] # arrivalVersion[message.id],
   cancelled |-> message.id \in cancelled]

\* ------------------------------------------------------------------ actions

\* BufferedMessageQueue.onRequest(type, handler, versionLens)
onRequest(method, handler, lens) ==
  /\ requestHandlers' =
       setRegistration(requestHandlers, method, [handler |-> handler, versionLens |-> lens])
  /\ lastRequestRegistration' =
       [lastRequestRegistration EXCEPT ![method] = [handler |-> handler, versionLens |-> lens]]
  /\ UNCHANGED <<queue, timer, immediates, notificationHandlers, documents,
                 cancelled, thenables, nextId, drained, invoked, calls,
                 arrivalVersion>>
  /\ UNCHANGED <<results, args, dispatched, lastNotificationRegistration>>
  /\ UNCHANGED nonQueueVars

\* BufferedMessageQueue.onNotification(type, handler, versionLens)
onNotification(method, handler, lens) ==
  /\ notificationHandlers' =
       setRegistration(notificationHandlers, method, [handler |-> handler, versionLens |-> lens])
  /\ lastNotificationRegistration' =
       [lastNotificationRegistration EXCEPT ![method] = [handler |-> handler, versionLens |-> lens]]
  /\ UNCHANGED <<queue, timer, immediates, requestHandlers, documents,
                 cancelled, thenables, nextId, drained, invoked, calls,
                 arrivalVersion>>
  /\ UNCHANGED <<results, args, dispatched, lastRequestRegistration>>
  /\ UNCHANGED nonQueueVars

\* push the message, then next()
Enqueue(message) ==
  /\ nextId <= MaxMsgs
  /\ queue' = Push(queue, message)
  /\ timer' = nextTimer(timer, queue')
  /\ immediates' = nextImmediates(timer, immediates, queue')
  /\ nextId' = nextId + 1
  /\ arrivalVersion' = [arrivalVersion EXCEPT ![nextId] = documents[message.param.uri]]

\* The callback onRequest registered with the connection: a request of the
\* client arrives.
ConnectionRequest(method, param) ==
  /\ requestHandlers[method] # NoReg
  /\ Enqueue(Request(nextId, method, param, requestHandlers[method].versionLens))
  /\ UNCHANGED <<requestHandlers, notificationHandlers, documents, cancelled,
                 thenables, drained, invoked, calls>>
  /\ UNCHANGED <<results, args, dispatched, lastRequestRegistration,
                 lastNotificationRegistration>>
  /\ UNCHANGED nonQueueVars

\* BufferedMessageQueue.addNotification(type, param, documentVersion)
addNotification(method, param, documentVersion) ==
  /\ Enqueue(Notification(nextId, method, param, documentVersion))
  /\ UNCHANGED <<requestHandlers, notificationHandlers, documents, cancelled,
                 thenables, drained, invoked, calls>>
  /\ UNCHANGED <<results, args, dispatched, lastRequestRegistration,
                 lastNotificationRegistration>>
  /\ UNCHANGED nonQueueVars

\* The callback onNotification registered with the connection: a notification
\* of the client arrives.
ConnectionNotification(method, param) ==
  /\ notificationHandlers[method] # NoReg
  /\ addNotification(method, param,
                     VersionLens(notificationHandlers[method].versionLens, param))

\* validateDocument(messageQueue, document) with the store's document
validateDocument(uri) ==
  addNotification(ValidateMethod, LiveParam(uri), documents[uri])

\* The document store receives a change of the document
DocumentChange(uri) ==
  /\ documents[uri] < MaxVersion
  /\ documents' = [documents EXCEPT ![uri] = @ + 1]
  /\ UNCHANGED <<queue, timer, immediates, requestHandlers, notificationHandlers,
                 cancelled, thenables, nextId, drained, invoked, calls,
                 arrivalVersion>>
  /\ UNCHANGED <<results, args, dispatched, lastRequestRegistration,
                 lastNotificationRegistration>>
  /\ UNCHANGED nonQueueVars

\* The client cancels a request that is still queued (popQueue is the only
\* reader of the token)
CancelRequest(id) ==
  /\ id < nextId
  /\ id \notin cancelled
  /\ calls[id] = <<>>
  /\ \E i \in 1 .. Len(queue) : queue[i].id = id /\ queue[i].isRequest
  /\ cancelled' = cancelled \cup {id}
  /\ UNCHANGED <<queue, timer, immediates, requestHandlers, notificationHandlers,
                 documents, thenables, nextId, drained, invoked, calls,
                 arrivalVersion>>
  /\ UNCHANGED <<results, args, dispatched, lastRequestRegistration,
                 lastNotificationRegistration>>
  /\ UNCHANGED nonQueueVars

\* this.timer = undefined, the first statement of the setImmediate callback
timerInCallbackNotCleared(t) == t
timerInCallback(t) == FALSE

\* The setImmediate callback armed by next(): clear the timer, popQueue().
\* reenter: the handler, while it runs, calls addNotification for its document.
DrainStep(result, reenter) ==
  /\ immediates > 0
  /\ IF queue = <<>>
     THEN /\ ~reenter
          /\ timer' = timerInCallback(timer)
          /\ immediates' = immediates - 1
          /\ UNCHANGED <<queue, thenables, drained, invoked, calls, results,
                         args, dispatched, nextId, arrivalVersion>>
     ELSE LET s == Shift(queue)
              message == s.message
              d == popQueue(message)
              handler == handlerOf(message)
              returnsValue == d.invoke /\ message.isRequest /\ ~isThenable(handler)
              returned == IF returnsValue THEN result ELSE "undefined"
              uri == message.param.uri
              \* the timer and the armed callbacks when the handler is called
              t0 == timerInCallback(timer)
              i0 == immediates - 1
              \* the queue, the timer and the armed callbacks when it returns
              q1 == IF reenter
                    THEN Push(s.rest, Notification(nextId, TestMethod, LiveParam(uri),
                                                   documents[uri]))
                    ELSE s.rest
              t1 == IF reenter THEN nextTimer(t0, q1) ELSE t0
              i1 == IF reenter THEN nextImmediates(t0, i0, q1) ELSE i0
          IN /\ reenter => (d.invoke /\ handler = SyncHandler /\ nextId <= MaxMsgs)
             /\ queue' = q1
             /\ nextId' = IF reenter THEN nextId + 1 ELSE nextId
             /\ arrivalVersion' =
                  IF reenter THEN [arrivalVersion EXCEPT ![nextId] = documents[uri]]
                  ELSE arrivalVersion
             /\ drained' = Append(drained, Observed(message))
             /\ invoked' = IF d.invoke THEN invoked \cup {message.id} ELSE invoked
             /\ dispatched' =
                  IF d.invoke THEN [dispatched EXCEPT ![message.id] = handler]
                  ELSE dispatched
             /\ calls' =
                  LET rejected ==
                        IF d.reject
                        THEN [calls EXCEPT ![message.id] = Append(@, RequestCancelled)]
                        ELSE calls
                  IN IF returnsValue
                     THEN [rejected EXCEPT ![message.id] =
                             Append(@, thenCallback("value", returned).callback)]
                     ELSE rejected
             /\ args' =
                  LET rejected ==
                        IF d.reject
                        THEN [args EXCEPT ![message.id] = Append(@, "ResponseError")]
                        ELSE args
                  IN IF returnsValue
                     THEN [rejected EXCEPT ![message.id] =
                             Append(@, thenCallback("value", returned).arg)]
                     ELSE rejected
             /\ results' =
                  IF returnsValue
                  THEN [results EXCEPT ![message.id] =
                          Append(@, [kind |-> "value", value |-> returned])]
                  ELSE results
             /\ thenables' =
                  IF d.invoke /\ message.isRequest /\ isThenable(handler)
                  THEN thenables \cup {[id |-> message.id, handler |-> handler,
                                        uri |-> message.param.uri]}
                  ELSE thenables
             /\ timer' = IF d.next THEN nextTimer(t1, q1) ELSE t1
             /\ immediates' = IF d.next THEN nextImmediates(t1, i1, q1) ELSE i1
  /\ UNCHANGED <<requestHandlers, notificationHandlers, documents, cancelled>>
  /\ UNCHANGED <<lastRequestRegistration, lastNotificationRegistration>>

\* the callback when no handler calls back into the queue
RunImmediateWith(result) ==
  /\ DrainStep(result, FALSE)
  /\ UNCHANGED nonQueueVars

\* the callback when the handler enqueues a notification while it runs
RunImmediateReentrant ==
  /\ DrainStep("undefined", TRUE)
  /\ UNCHANGED nonQueueVars

\* the same with handlers that return nothing
RunImmediate == RunImmediateWith("undefined")

\* The promise an async request handler returned settles: the callbacks
\* attached by popQueue call message.resolve / message.reject.
ThenableSettles(t, settlement) ==
  /\ t \in thenables
  /\ t.handler = ExecuteCommandHandler =>
       (settlement.kind = "fulfilled" => settlement.value = "undefined")
  /\ thenables' = thenables \ {t}
  /\ results' = [results EXCEPT ![t.id] = Append(@, settlement)]
  /\ calls' = [calls EXCEPT ![t.id] =
                 Append(@, thenCallback(settlement.kind, settlement.value).callback)]
  /\ args' = [args EXCEPT ![t.id] =
                Append(@, thenCallback(settlement.kind, settlement.value).arg)]
  /\ UNCHANGED <<queue, timer, immediates, requestHandlers, notificationHandlers,
                 documents, cancelled, nextId, drained, invoked, arrivalVersion>>
  /\ UNCHANGED <<dispatched, lastRequestRegistration, lastNotificationRegistration>>
  /\ UNCHANGED nonQueueVars

\* The execute-command handler had edits applied by the client: it calls
\* validateDocument(messageQueue, document) and its promise resolves.
ExecuteCommandApplied(t) ==
  /\ t \in thenables
  /\ t.handler = ExecuteCommandHandler
  /\ Enqueue(Notification(nextId, ValidateMethod, LiveParam(t.uri), documents[t.uri]))
  /\ thenables' = thenables \ {t}
  /\ results' = [results EXCEPT ![t.id] =
                   Append(@, [kind |-> "fulfilled", value |-> "undefined"])]
  /\ calls' = [calls EXCEPT ![t.id] =
                 Append(@, thenCallback("fulfilled", "undefined").callback)]
  /\ args' = [args EXCEPT ![t.id] =
                Append(@, thenCallback("fulfilled", "undefined").arg)]
  /\ UNCHANGED <<requestHandlers, notificationHandlers, documents, cancelled,
                 drained, invoked>>
  /\ UNCHANGED <<dispatched, lastRequestRegistration, lastNotificationRegistration>>
  /\ UNCHANGED nonQueueVars

Next ==
  \/ \E h \in {SyncHandler, AsyncHandler}, l \in TestLenses : onRequest(TestMethod, h, l)
  \/ \E l \in TestLenses : onNotification(TestMethod, SyncHandler, l)
  \/ \E m \in Methods, u \in Uris : ConnectionRequest(m, StaticParam(u))
  \/ \E m \in Methods, u \in Uris : ConnectionNotification(m, StaticParam(u))
  \/ \E u \in Uris : addNotification(TestMethod, StaticParam(u), documents[u])
  \/ \E u \in Uris : validateDocument(u)
  \/ \E u \in Uris : DocumentChange(u)
  \/ \E i \in MsgIds : CancelRequest(i)
  \/ RunImmediate
  \/ \E t \in thenables, o \in PlainSettlements : ThenableSettles(t, o)
  \/ \E t \in thenables : ExecuteCommandApplied(t)

Spec == Init /\ [][Next]_vars

\* Requests only, with handlers that return and thenables that settle with
\* every value and error.
NextSettle ==
  \/ \E h \in {SyncHandler, AsyncHandler}, l \in TestLenses : onRequest(TestMethod, h, l)
  \/ \E m \in {ExecuteCommandMethod, TestMethod}, u \in Uris :
       ConnectionRequest(m, StaticParam(u))
  \/ \E u \in Uris : DocumentChange(u)
  \/ \E i \in MsgIds : CancelRequest(i)
  \/ \E v \in Values : RunImmediateWith(v)
  \/ \E t \in thenables, o \in Settlements : ThenableSettles(t, o)
  \/ \E t \in thenables : ExecuteCommandApplied(t)

SpecSettle == Init /\ [][NextSettle]_vars

\* Messages of the test method, whose registrations are made and remade with
\* every handler and lens.
NextRegister ==
  \/ \E h \in {SyncHandler, AsyncHandler}, l \in LensKinds : onRequest(TestMethod, h, l)
  \/ \E h \in {SyncHandler, AsyncHandler}, l \in LensKinds : onNotification(TestMethod, h, l)
  \/ \E u \in Uris : ConnectionRequest(TestMethod, StaticParam(u))
  \/ \E u \in Uris : ConnectionNotification(TestMethod, StaticParam(u))
  \/ \E u \in Uris : addNotification(TestMethod, StaticParam(u), documents[u])
  \/ \E u \in Uris : DocumentChange(u)
  \/ RunImmediate

SpecRegister == Init /\ [][NextRegister]_vars

\* Test-method messages whose handler may call back into the queue
NextReenter ==
  \/ \E l \in LensKinds : onRequest(TestMethod, SyncHandler, l)
  \/ \E l \in LensKinds : onNotification(TestMethod, SyncHandler, l)
  \/ \E u \in Uris : ConnectionRequest(TestMethod, StaticParam(u))
  \/ \E u \in Uris : addNotification(TestMethod, StaticParam(u), documents[u])
  \/ \E u \in Uris : DocumentChange(u)
  \/ RunImmediate
  \/ RunImmediateReentrant

SpecReenter == Init /\ [][NextReenter]_vars

\* ------------------------------------------------------------------ autoFix
\* Texts are sequences of characters.
\* the characters of a text: a letter and the line break
EOL == "\n"
Alphabet == {"a", EOL}
SpanTexts == UNION {[1 .. n -> Alphabet] : n \in 1 .. MaxSpanLen}

\* fastDiff.EQUAL, fastDiff.DELETE, fastDiff.INSERT
EQUAL == "EQUAL"
DELETE == "DELETE"
INSERT == "INSERT"

\* The diffs fastDiff returns: sequences of [action, str] with str non-empty
DiffSpans == {EQUAL, DELETE, INSERT} \X SpanTexts
Diffs == UNION {[1 .. n -> DiffSpans] : n \in 0 .. MaxSpans}

\* The diff of the test "with changes"
\* original string: 123456789345678234, modified string: 123789012345901567
ExampleDiff ==
  << <<EQUAL, <<"1", "2", "3">> >>,
     <<DELETE, <<"4", "5", "6">> >>,
     <<EQUAL, <<"7", "8", "9">> >>,
     <<INSERT, <<"0", "1", "2">> >>,
     <<EQUAL, <<"3", "4", "5">> >>,
     <<DELETE, <<"6", "7", "8">> >>,
     <<INSERT, <<"9", "0", "1">> >>,
     <<DELETE, <<"2", "3", "4">> >>,
     <<INSERT, <<"5", "6", "7">> >> >>

\* The text a diff is of (its equal and delete spans) and the text it leads to
\* (its equal and insert spans)
RECURSIVE Keep(_, _)
Keep(spans, actions) ==
  IF spans = <<>> THEN <<>>
  ELSE (IF Head(spans)[1] \in actions THEN Head(spans)[2] ELSE <<>>)
         \o Keep(Tail(spans), actions)
Before(spans) == Keep(spans, {EQUAL, DELETE})
After(spans) == Keep(spans, {EQUAL, INSERT})

\* One iteration of the forEach over the diff: acc holds changes and cur;
\* lastChange is the last element of changes.
WalkSpanNoMerge(acc, span) ==
  LET action == span[1]
      str == span[2]
  IN IF action = EQUAL
     THEN [acc EXCEPT !.cur = @ + Len(str)]
     ELSE IF action = DELETE
     THEN [changes |-> Append(acc.changes,
                              [start |-> acc.cur, end |-> acc.cur + Len(str),
                               newText |-> <<>>]),
           cur |-> acc.cur + Len(str)]
     ELSE [changes |-> Append(acc.changes,
                              [start |-> acc.cur, end |-> acc.cur, newText |-> str]),
           cur |-> acc.cur]
\* inserts never combine with lastChange
WalkSpanInsertNoMerge(acc, span) ==
  LET action == span[1]
      str == span[2]
      n == Len(acc.changes)
  IN IF action = EQUAL
     THEN [acc EXCEPT !.cur = @ + Len(str)]
     ELSE IF action = DELETE
     THEN IF n > 0 /\ acc.changes[n].end = acc.cur
          THEN [changes |-> [acc.changes EXCEPT ![n].end = @ + Len(str)],
                cur |-> acc.cur + Len(str)]
          ELSE [changes |-> Append(acc.changes,
                                   [start |-> acc.cur, end |-> acc.cur + Len(str),
                                    newText |-> <<>>]),
                cur |-> acc.cur + Len(str)]
     ELSE [changes |-> Append(acc.changes,
                              [start |-> acc.cur, end |-> acc.cur, newText |-> str]),
           cur |-> acc.cur]
\* equal spans fall into the insert branch
WalkSpanEqualAsInsert(acc, span) ==
  LET action == span[1]
      str == span[2]
      n == Len(acc.changes)
  IN IF action = DELETE
     THEN IF n > 0 /\ acc.changes[n].end = acc.cur
          THEN [changes |-> [acc.changes EXCEPT ![n].end = @ + Len(str)],
                cur |-> acc.cur + Len(str)]
          ELSE [changes |-> Append(acc.changes,
                                   [start |-> acc.cur, end |-> acc.cur + Len(str),
                                    newText |-> <<>>]),
                cur |-> acc.cur + Len(str)]
     ELSE IF n > 0 /\ acc.changes[n].end = acc.cur
          THEN [changes |-> [acc.changes EXCEPT ![n].newText = @ \o str],
                cur |-> acc.cur]
          ELSE [changes |-> Append(acc.changes,
                                   [start |-> acc.cur, end |-> acc.cur, newText |-> str]),
                cur |-> acc.cur]
\* a new delete change ends where it starts
WalkSpanDeleteEndsAtCur(acc, span) ==
  LET action == span[1]
      str == span[2]
      n == Len(acc.changes)
  IN IF action = EQUAL
     THEN [acc EXCEPT !.cur = @ + Len(str)]
     ELSE IF action = DELETE
     THEN IF n > 0 /\ acc.changes[n].end = acc.cur
          THEN [changes |-> [acc.changes EXCEPT ![n].end = @ + Len(str)],
                cur |-> acc.cur + Len(str)]
          ELSE [changes |-> Append(acc.changes,
                                   [start |-> acc.cur, end |-> acc.cur,
                                    newText |-> <<>>]),
                cur |-> acc.cur + Len(str)]
     ELSE IF n > 0 /\ acc.changes[n].end = acc.cur
          THEN [changes |-> [acc.changes EXCEPT ![n].newText = @ \o str],
                cur |-> acc.cur]
          ELSE [changes |-> Append(acc.changes,
                                   [start |-> acc.cur, end |-> acc.cur, newText |-> str]),
                cur |-> acc.cur]
WalkSpanEqualKeepsOpen(acc, span) ==
  LET action == span[1]
      str == span[2]
      n == Len(acc.changes)
      open == n > 0 /\ acc.changes[n].end = acc.cur
  IN IF action = EQUAL
     THEN [changes |-> IF open
                       THEN [acc.changes EXCEPT ![n].end = @ + Len(str),
                                                ![n].newText = @ \o str]
                       ELSE acc.changes,
           cur |-> acc.cur + Len(str)]
     ELSE IF action = DELETE
     THEN IF open
          THEN [changes |-> [acc.changes EXCEPT ![n].end = @ + Len(str)],
                cur |-> acc.cur + Len(str)]
          ELSE [changes |-> Append(acc.changes,
                                   [start |-> acc.cur, end |-> acc.cur + Len(str),
                                    newText |-> <<>>]),
                cur |-> acc.cur + Len(str)]
     ELSE IF open
          THEN [changes |-> [acc.changes EXCEPT ![n].newText = @ \o str],
                cur |-> acc.cur]
          ELSE [changes |-> Append(acc.changes,
                                   [start |-> acc.cur, end |-> acc.cur, newText |-> str]),
                cur |-> acc.cur]
WalkSpan(acc, span) ==
  LET action == span[1]
      str == span[2]
      n == Len(acc.changes)
  IN IF action = EQUAL
     THEN [acc EXCEPT !.cur = @ + Len(str)]
     ELSE IF action = DELETE
     THEN IF n > 0 /\ acc.changes[n].end = acc.cur
          THEN [changes |-> [acc.changes EXCEPT ![n].end = @ + Len(str)],
                cur |-> acc.cur + Len(str)]
          ELSE [changes |-> Append(acc.changes,
                                   [start |-> acc.cur, end |-> acc.cur + Len(str),
                                    newText |-> <<>>]),
                cur |-> acc.cur + Len(str)]
     ELSE IF n > 0 /\ acc.changes[n].end = acc.cur
          THEN [changes |-> [acc.changes EXCEPT ![n].newText = @ \o str],
                cur |-> acc.cur]
          ELSE [changes |-> Append(acc.changes,
                                   [start |-> acc.cur, end |-> acc.cur, newText |-> str]),
                cur |-> acc.cur]

\* fastDiff(originalText, output).forEach(...), from changes = [], cur = 0
RECURSIVE Walk(_, _)
Walk(acc, spans) ==
  IF spans = <<>> THEN acc
  ELSE Walk(WalkSpan(acc, Head(spans)), Tail(spans))

\* What autoFix does once lint has returned: the changes it returns and the
\* number of times it calls fastDiff
autoFixIgnoresIgnored(isIgnored, spans) ==
  [changes |-> Walk([changes |-> <<>>, cur |-> 0], spans).changes, diffs |-> 1]
autoFixResult(isIgnored, spans) ==
  IF isIgnored
  THEN [changes |-> <<>>, diffs |-> 0]
  ELSE [changes |-> Walk([changes |-> <<>>, cur |-> 0], spans).changes, diffs |-> 1]

\* the line an offset of a text is on, and the offset at which a line begins
LineOf(text, offset) == Cardinality({i \in 1 .. offset : text[i] = EOL})
LineStart(text, line) ==
  IF line = 0 THEN 0
  ELSE CHOOSE i \in 1 .. Len(text) : text[i] = EOL /\ LineOf(text, i) = line

\* document.positionAt(offset)
positionAtOnFirstLine(text, offset) == [line |-> 0, character |-> offset]
positionAt(text, offset) ==
  LET line == LineOf(text, offset)
  IN [line |-> line, character |-> offset - LineStart(text, line)]

\* changes.map(... TextEdit.replace(Range.create(positionAt(start),
\* positionAt(end)), newText))
TextEdits(text, changes) ==
  [k \in 1 .. Len(changes) |->
     [range |-> [start |-> positionAt(text, changes[k].start),
                 end |-> positionAt(text, changes[k].end)],
      newText |-> changes[k].newText]]

\* A document, the linter's result for it and the diff of the two texts
FixInit ==
  /\ QueueInit
  /\ LintInit
  /\ RestInit
  /\ fixPc = "ready"
  /\ diff \in Diffs \cup {ExampleDiff}
  /\ originalText = Before(diff)
  /\ output = After(diff)
  /\ ignored \in BOOLEAN
  /\ diffCalls = 0
  /\ edits = <<>>

\* autoFix up to its await: originalText = document.getText(), lint(..., true)
AutoFixCall ==
  /\ fixPc = "ready"
  /\ fixPc' = "linting"
  /\ UNCHANGED <<originalText, ignored, output, diff, diffCalls, edits>>
  /\ UNCHANGED <<queueVars, lintVars, restVars>>

\* autoFix after lint returned
AutoFixResume ==
  /\ fixPc = "linting"
  /\ fixPc' = "done"
  /\ edits' = autoFixResult(ignored, diff).changes
  /\ diffCalls' = diffCalls + autoFixResult(ignored, diff).diffs
  /\ UNCHANGED <<originalText, ignored, output, diff>>
  /\ UNCHANGED <<queueVars, lintVars, restVars>>

NextFix ==
  \/ AutoFixCall
  \/ AutoFixResume

SpecFix == FixInit /\ [][NextFix]_vars

\* ------------------------------------------------------------------ lintFunc
\* What a call of the lint function returns without stylelint's result
Placeholder == [errored |-> TRUE, output |-> <<>>, results |-> <<>>]

\* What stylelint.lint returns when it fulfils
LinterResult == [errored |-> FALSE, output |-> <<>>, results |-> <<"result">>]

\* !this.failedDocuments.has(uri), negated: the call skips stylelint
lintFuncNeverSkips(failed, uri) == FALSE
lintFuncSkips(failed, uri) == uri \in failed

\* the catch block: this.failedDocuments.add(uri)
catchError(failed, uri) == failed \cup {uri}

\* A call of the function lintFunc(uri, stylelint) returned, up to its await
\* (or to its return, when the uri has failed)
lintFuncCall(uri) ==
  /\ Len(lintCalls) < MaxLintCalls
  /\ lintCalls' =
       Append(lintCalls,
              IF lintFuncSkips(failedDocuments, uri)
              THEN [uri |-> uri, state |-> "returned", value |-> Placeholder,
                    invoked |-> FALSE, afterThrow |-> uri \in thrown]
              ELSE [uri |-> uri, state |-> "awaiting", value |-> Placeholder,
                    invoked |-> TRUE, afterThrow |-> uri \in thrown])
  /\ UNCHANGED <<failedDocuments, thrown, lintOutcomes>>
  /\ UNCHANGED <<queueVars, fixVars, restVars>>

\* stylelint.lint(...args) fulfils: the call returns its result
stylelintReturns(i) ==
  /\ lintCalls[i].state = "awaiting"
  /\ lintCalls' = [lintCalls EXCEPT ![i].state = "returned",
                                    ![i].value = LinterResult]
  /\ UNCHANGED <<failedDocuments, thrown, lintOutcomes>>
  /\ UNCHANGED <<queueVars, fixVars, restVars>>

\* stylelint.lint(...args) rejects: the catch block runs, then the call
\* returns the placeholder
stylelintThrows(i) ==
  /\ lintCalls[i].state = "awaiting"
  /\ failedDocuments' = catchError(failedDocuments, lintCalls[i].uri)
  /\ thrown' = thrown \cup {lintCalls[i].uri}
  /\ lintCalls' = [lintCalls EXCEPT ![i].state = "returned",
                                    ![i].value = Placeholder]
  /\ UNCHANGED lintOutcomes
  /\ UNCHANGED <<queueVars, fixVars, restVars>>

clearFailedDocuments ==
  /\ failedDocuments' = {}
  /\ thrown' = {}
  /\ UNCHANGED <<lintCalls, lintOutcomes>>
  /\ UNCHANGED <<queueVars, fixVars, restVars>>

\* const { results: [result] } = await lint(...); if (result.ignored): what
\* validate and autoFix do first with the value the lint function returned
readIgnored(value) ==
  IF value.results = <<>> THEN "TypeError" ELSE "returned"

\* validate or autoFix goes on once its call of the lint function returned
lintReturnsTo(i, by) ==
  /\ lintCalls[i].state = "returned"
  /\ \A o \in lintOutcomes : o.call # i
  /\ lintOutcomes' = lintOutcomes \cup
       {[call |-> i, by |-> by, outcome |-> readIgnored(lintCalls[i].value)]}
  /\ UNCHANGED <<failedDocuments, lintCalls, thrown>>
  /\ UNCHANGED <<queueVars, fixVars, restVars>>

NextLint ==
  \/ \E uri \in LintUris : lintFuncCall(uri)
  \/ \E i \in 1 .. Len(lintCalls) : stylelintReturns(i)
  \/ \E i \in 1 .. Len(lintCalls) : stylelintThrows(i)
  \/ \E i \in 1 .. Len(lintCalls), by \in {"validate", "autoFix"} : lintReturnsTo(i, by)
  \/ clearFailedDocuments

SpecLint == Init /\ [][NextLint]_vars

\* ---------------------------------------------------------- Settings actions
nonSettingsVars == <<queueVars, fixVars, lintVars, codeActionVars, serverVars>>

\* Settings.initialize(capabilities); configuration is
\* capabilities.workspace && capabilities.workspace.configuration
initialize(configuration) ==
  /\ supportsConfigurationRequests' = configuration
  /\ UNCHANGED <<globalSettings, documentToSettings, promiseValue, nextPromise,
                 getConfigurationCalls, resolveCalls, sent>>
  /\ UNCHANGED nonSettingsVars

\* this.documentToSettings.get(uri)
cachedSettingsNever(map, uri) == NoPromise
cachedSettings(map, uri) == map[uri]

\* Settings.resolve(document), document.uri = uri
resolve(uri) ==
  /\ Len(resolveCalls) < MaxResolves
  /\ IF ~supportsConfigurationRequests
     THEN /\ resolveCalls' =
               Append(resolveCalls,
                      [uri |-> uri, supported |-> FALSE, promise |-> NoPromise,
                       value |-> Spread(globalSettings,
                                        [lint |-> lintFunc(uri, "globalStylelint")])])
          /\ UNCHANGED <<documentToSettings, promiseValue, nextPromise,
                         getConfigurationCalls>>
     ELSE LET cached == cachedSettings(documentToSettings, uri)
          IN IF cached # NoPromise
             THEN /\ resolveCalls' =
                       Append(resolveCalls,
                              [uri |-> uri, supported |-> TRUE, promise |-> cached,
                               value |-> NoOverrides])
                  /\ UNCHANGED <<documentToSettings, promiseValue, nextPromise,
                                 getConfigurationCalls>>
             ELSE /\ getConfigurationCalls' =
                       Append(getConfigurationCalls, [scopeUri |-> uri, section |-> ""])
                  /\ promiseValue' = [promiseValue EXCEPT ![nextPromise] = Pending]
                  /\ nextPromise' = nextPromise + 1
                  /\ documentToSettings' = [documentToSettings EXCEPT ![uri] = nextPromise]
                  /\ resolveCalls' =
                       Append(resolveCalls,
                              [uri |-> uri, supported |-> TRUE, promise |-> nextPromise,
                               value |-> NoOverrides])
  /\ UNCHANGED <<supportsConfigurationRequests, globalSettings, sent>>
  /\ UNCHANGED nonSettingsVars

\* The client answers getConfiguration: the then callback of resolve runs
getConfigurationAnswers(p, stylelintplus) ==
  /\ promiseValue[p] = Pending
  /\ promiseValue' =
       [promiseValue EXCEPT ![p] =
          [state |-> "fulfilled",
           value |-> Spread(Spread(defaultClientSettings, stylelintplus),
                            [lint |-> lintFunc(getConfigurationCalls[p].scopeUri,
                                               "resolveStylelint")])]]
  /\ UNCHANGED <<supportsConfigurationRequests, globalSettings, documentToSettings,
                 nextPromise, getConfigurationCalls, resolveCalls, sent>>
  /\ UNCHANGED nonSettingsVars

\* Settings.clientConfigurationChanged(params); present: params.settings.stylelintplus
\* is set, and then stylelintplus is its value
clientConfigurationChanged(present, stylelintplus) ==
  /\ IF supportsConfigurationRequests
     THEN /\ documentToSettings' = [u \in LintUris |-> NoPromise]
          /\ UNCHANGED <<globalSettings, sent>>
     ELSE IF present
     THEN /\ globalSettings' = Spread(defaultClientSettings, stylelintplus)
          /\ sent' = stylelintplus
          /\ UNCHANGED documentToSettings
     ELSE UNCHANGED <<globalSettings, sent, documentToSettings>>
  /\ UNCHANGED <<supportsConfigurationRequests, promiseValue, nextPromise,
                 getConfigurationCalls, resolveCalls>>

\* Settings.closeDocument(document)
closeDocument(uri) ==
  /\ documentToSettings' = [documentToSettings EXCEPT ![uri] = NoPromise]
  /\ UNCHANGED <<supportsConfigurationRequests, globalSettings, promiseValue,
                 nextPromise, getConfigurationCalls, resolveCalls, sent>>
  /\ UNCHANGED nonSettingsVars

NextSettings ==
  \/ \E configuration \in BOOLEAN : initialize(configuration)
  \/ \E uri \in LintUris : resolve(uri)
  \/ \E p \in PromiseIds, o \in ClientSettingsSent : getConfigurationAnswers(p, o)
  \/ \E present \in BOOLEAN, o \in ClientSettingsSent :
       clientConfigurationChanged(present, o) /\ UNCHANGED nonSettingsVars
  \/ \E uri \in LintUris : closeDocument(uri)

SpecSettings == Init /\ [][NextSettings]_vars

\* -------------------------------------------------------------- code actions
\* CodeActionKind.Source, CodeActionKind.QuickFix
Source == "source"
QuickFix == "quickfix"
CodeActionKinds == {Source, QuickFix}

\* CommandIds, DisableRuleCommandIds
applyAutoFixes == "applyAutoFixes"
applyDisableRuleInline == "applyDisableRuleInline"
applyDisableRuleToLine == "applyDisableRuleToLine"
applyDisableRuleToFile == "applyDisableRuleToFile"
applyDisableRuleToRange == "applyDisableRuleToRange"

\* the keys of DISABLE_RULE_TEXT_EDITS
DisableRuleIds ==
  {applyDisableRuleInline, applyDisableRuleToLine, applyDisableRuleToFile,
   applyDisableRuleToRange}

DISABLE_RULES_FOR_LINE ==
  <<applyDisableRuleInline, applyDisableRuleToLine, applyDisableRuleToFile>>
DISABLE_RULES_FOR_RANGE == <<applyDisableRuleToRange, applyDisableRuleToFile>>
DISABLE_RULES_FOR_WHOLE_FILE == <<applyDisableRuleToFile>>

shouldApplyToLine(range) ==
  \/ range.start.line = range.end.line
  \/ (range.end.character = 0 /\ range.start.line + 1 = range.end.line)

shouldApplyToWholeFileLastLineOnly(range, lineCount) ==
  /\ range.start.line = 0
  /\ range.end.line = lineCount - 1
shouldApplyToWholeFile(range, lineCount) ==
  /\ range.start.line = 0
  /\ (range.end.line = lineCount - 1 \/ range.end.line = lineCount)

\* which commands to return
disableRuleCommandsWholeFileFirst(range, lineCount) ==
  IF shouldApplyToWholeFile(range, lineCount) THEN DISABLE_RULES_FOR_WHOLE_FILE
  ELSE IF shouldApplyToLine(range) THEN DISABLE_RULES_FOR_LINE
  ELSE DISABLE_RULES_FOR_RANGE
disableRuleCommands(range, lineCount) ==
  IF shouldApplyToLine(range) THEN DISABLE_RULES_FOR_LINE
  ELSE IF shouldApplyToWholeFile(range, lineCount) THEN DISABLE_RULES_FOR_WHOLE_FILE
  ELSE DISABLE_RULES_FOR_RANGE

\* the code of a diagnostic: a string (a rule, or empty), a number, or none
DiagnosticCodes ==
  {[type |-> "string", value |-> "rule"],
   [type |-> "string", value |-> "other-rule"],
   [type |-> "string", value |-> ""],
   [type |-> "number", value |-> "1"]}

\* the keys of the Map of rules, in the order they were set
RECURSIVE rulesOf(_, _)
rulesOf(diagnostics, seen) ==
  IF diagnostics = <<>> THEN <<>>
  ELSE LET code == Head(diagnostics)
           isRule == code.type = "string" /\ code.value # "" /\ code.value \notin seen
       IN IF isRule
          THEN <<code.value>> \o rulesOf(Tail(diagnostics), seen \cup {code.value})
          ELSE rulesOf(Tail(diagnostics), seen)

\* one result: a Command, or a CodeAction when the client supports literals of
\* its kind
Action(command, kind, rule, literals) ==
  [command |-> command, kind |-> kind, rule |-> rule, literal |-> kind \in literals]

\* rules.forEach(... disableRuleCommands.forEach(...))
RECURSIVE disableActions(_, _, _)
disableActions(rules, commands, literals) ==
  IF rules = <<>> THEN <<>>
  ELSE [i \in 1 .. Len(commands) |->
          Action(commands[i], QuickFix, Head(rules), literals)]
       \o disableActions(Tail(rules), commands, literals)

\* the handler buildCodeActionHandler returns
codeActionHandler(params) ==
  IF ~params.exists THEN <<>>
  ELSE LET range == params.range
           applyToWholeFile == shouldApplyToWholeFile(range, params.lineCount)
           returnSource == params.only.present => Source \in params.only.kinds
           returnQuickFixes == params.only.present => QuickFix \in params.only.kinds
       IN (IF returnSource /\ applyToWholeFile
           THEN <<Action(applyAutoFixes, Source, "", params.literals)>>
           ELSE <<>>)
          \o (IF returnQuickFixes
              THEN disableActions(rulesOf(params.diagnostics, {}),
                                  disableRuleCommands(range, params.lineCount),
                                  params.literals)
              ELSE <<>>)

Lines == 0 .. MaxLines
Positions == [line : Lines, character : {0, 1}]
Ranges ==
  {r \in [start : Positions, end : Positions] :
     \/ r.start.line < r.end.line
     \/ (r.start.line = r.end.line /\ r.start.character <= r.end.character)}
Onlys ==
  {[present |-> FALSE, kinds |-> {}]}
    \cup {[present |-> TRUE, kinds |-> k] : k \in SUBSET CodeActionKinds}
CodeActionParams ==
  [exists : BOOLEAN,
   lineCount : 1 .. MaxLines,
   range : Ranges,
   only : Onlys,
   diagnostics : UNION {[1 .. n -> DiagnosticCodes] : n \in 0 .. MaxDiagnostics},
   literals : SUBSET CodeActionKinds]

\* a code-action request arrives
CodeActionInit ==
  /\ QueueInit
  /\ FixIdle
  /\ LintInit
  /\ SettingsInit
  /\ ServerIdle(ConfigOf(defaultClientSettings))
  /\ caPc = "ready"
  /\ caParams \in CodeActionParams
  /\ caResult = <<>>

\* connection.onCodeAction calls the handler
CodeActionRequest ==
  /\ caPc = "ready"
  /\ caPc' = "done"
  /\ caResult' = codeActionHandler(caParams)
  /\ UNCHANGED caParams
  /\ UNCHANGED <<queueVars, fixVars, lintVars, settingsVars, serverVars>>

NextCodeAction == CodeActionRequest

SpecCodeAction == CodeActionInit /\ [][NextCodeAction]_vars

\* ---------------------------------------------------------------- handlers
nonServerVars == <<fixVars, lintVars, settingsVars, codeActionVars>>

\* the queue's variables an enqueue leaves alone
enqueueUnchanged ==
  <<requestHandlers, notificationHandlers, documents, cancelled, thenables,
    drained, invoked, calls, results, args, dispatched, lastRequestRegistration,
    lastNotificationRegistration>>

\* the commands of an execute-command request
Commands == {applyAutoFixes, applyDisableRuleToFile, "unknown"}

\* params of an execute-command request: arguments[0] is the document's
\* identifier as the client sends it
CommandParam(uri, command) ==
  [uri |-> uri, live |-> FALSE, version |-> documents[uri], command |-> command]

\* a handler waiting at an await
Waiting(kind, uri, id, command) ==
  [kind |-> kind, uri |-> uri, id |-> id, command |-> command]

\* one more handler may start
mayStart == Cardinality(pending) < MaxPending

\* validateDocument(messageQueue, document) called by a handler
handlerValidates(uri, by) ==
  /\ Enqueue(Notification(nextId, ValidateMethod, LiveParam(uri), documents[uri]))
  /\ validations' = validations \cup {by}

\* documents.onDidOpen, up to await settings.resolve
DidOpen(uri) ==
  /\ uri \notin opened
  /\ mayStart
  /\ opened' = opened \cup {uri}
  /\ pending' = pending \cup {Waiting("didOpen", uri, 0, "")}
  /\ UNCHANGED <<notified, linting, published, config, needsValidation, lints, applyEdits,
                 answers, validations>>
  /\ UNCHANGED <<queueVars, nonServerVars>>

\* documents.onDidOpen, after the await
DidOpenResolved(p) ==
  /\ p \in pending /\ p.kind = "didOpen"
  /\ pending' = pending \ {p}
  /\ IF config.enable
     THEN handlerValidates(p.uri, p.kind)
     ELSE UNCHANGED <<queue, timer, immediates, nextId, arrivalVersion, validations>>
  /\ UNCHANGED <<notified, linting, published, config, opened, needsValidation, lints, applyEdits, answers>>
  /\ UNCHANGED <<enqueueUnchanged, nonServerVars>>

\* documents.onDidChangeContent, up to await settings.resolve: the store has
\* taken the change
DidChangeContent(uri) ==
  /\ uri \in opened
  /\ mayStart
  /\ documents[uri] < MaxVersion
  /\ documents' = [documents EXCEPT ![uri] = @ + 1]
  /\ pending' = pending \cup {Waiting("didChangeContent", uri, 0, "")}
  /\ UNCHANGED <<notified, linting, published, config, opened, needsValidation, lints, applyEdits, answers, validations>>
  /\ UNCHANGED <<queue, timer, immediates, requestHandlers, notificationHandlers,
                 cancelled, thenables, nextId, drained, invoked, calls,
                 arrivalVersion, results, args, dispatched,
                 lastRequestRegistration, lastNotificationRegistration>>
  /\ UNCHANGED nonServerVars

\* the test of onDidChangeContent
changeValidates(c, needs) == c.enable /\ (c.validateOnType \/ needs)

\* documents.onDidChangeContent, after the await
DidChangeContentResolved(p) ==
  /\ p \in pending /\ p.kind = "didChangeContent"
  /\ pending' = pending \ {p}
  /\ IF changeValidates(config, p.uri \in needsValidation)
     THEN /\ needsValidation' = needsValidation \ {p.uri}
          /\ handlerValidates(p.uri, p.kind)
     ELSE UNCHANGED <<needsValidation, queue, timer, immediates, nextId,
                      arrivalVersion, validations>>
  /\ UNCHANGED <<notified, linting, published, config, opened, lints, applyEdits, answers>>
  /\ UNCHANGED <<enqueueUnchanged, nonServerVars>>

\* documents.onWillSaveWaitUntil, up to await settings.resolve; afterDelay:
\* event.reason === TextDocumentSaveReason.AfterDelay
WillSave(uri, afterDelay) ==
  /\ uri \in opened
  /\ mayStart
  /\ pending' = IF afterDelay THEN pending
                ELSE pending \cup {Waiting("willSave", uri, 0, "")}
  /\ UNCHANGED <<notified, linting, published, config, opened, needsValidation, lints, applyEdits, answers, validations>>
  /\ UNCHANGED <<queueVars, nonServerVars>>

\* onWillSaveWaitUntil and onDocumentFormatting after the await: needsValidation
\* gets the uri and autoFix calls the linter with fix = true
FixResolved(p, wanted) ==
  /\ pending' = pending \ {p}
  /\ IF ~config.enable \/ ~wanted
     THEN UNCHANGED <<needsValidation, lints>>
     ELSE /\ needsValidation' = needsValidation \cup {p.uri}
          /\ lints' = lints \cup {[by |-> p.kind, fix |-> TRUE]}
  /\ UNCHANGED <<notified, linting, published, config, opened, applyEdits, answers,
                 validations>>
  /\ UNCHANGED <<queueVars, nonServerVars>>

WillSaveResolved(p) ==
  /\ p \in pending /\ p.kind = "willSave"
  /\ FixResolved(p, config.autoFixOnSave)

\* documents.onDidSave, up to await settings.resolve
DidSave(uri) ==
  /\ uri \in opened
  /\ mayStart
  /\ pending' = pending \cup {Waiting("didSave", uri, 0, "")}
  /\ UNCHANGED <<notified, linting, published, config, opened, needsValidation, lints, applyEdits, answers, validations>>
  /\ UNCHANGED <<queueVars, nonServerVars>>

\* the test of onDidSave
saveValidatesWithoutAutoFix(c, needs) == c.enable /\ (c.validateOnSave \/ needs)
saveValidates(c, needs) ==
  c.enable /\ (c.validateOnSave \/ c.autoFixOnSave \/ needs)

\* documents.onDidSave, after the await
DidSaveResolved(p) ==
  /\ p \in pending /\ p.kind = "didSave"
  /\ pending' = pending \ {p}
  /\ IF saveValidates(config, p.uri \in needsValidation)
     THEN /\ needsValidation' = needsValidation \ {p.uri}
          /\ handlerValidates(p.uri, p.kind)
     ELSE UNCHANGED <<needsValidation, queue, timer, immediates, nextId,
                      arrivalVersion, validations>>
  /\ UNCHANGED <<notified, linting, published, config, opened, lints, applyEdits, answers>>
  /\ UNCHANGED <<enqueueUnchanged, nonServerVars>>

\* documents.onDidClose (validate.ts and index.ts): the store has dropped the
\* document
DidClose(uri) ==
  /\ uri \in opened
  /\ opened' = opened \ {uri}
  /\ published' = [published EXCEPT ![uri] = Cleared]
  /\ UNCHANGED <<notified, linting, config, needsValidation, pending, lints,
                 applyEdits, answers, validations>>
  /\ UNCHANGED <<queueVars, nonServerVars>>

\* connection.onDocumentFormatting, up to await settings.resolve
DocumentFormatting(uri) ==
  /\ mayStart
  /\ pending' = IF uri \in opened
                THEN pending \cup {Waiting("formatting", uri, 0, "")}
                ELSE pending
  /\ UNCHANGED <<notified, linting, published, config, opened, needsValidation, lints, applyEdits, answers, validations>>
  /\ UNCHANGED <<queueVars, nonServerVars>>

DocumentFormattingResolved(p) ==
  /\ p \in pending /\ p.kind = "formatting"
  /\ FixResolved(p, config.autoFixOnFormat)

\* the documents of the store in the order documents.all() lists them
RECURSIVE all(_)
all(uris) ==
  IF uris = {} THEN <<>>
  ELSE LET uri == CHOOSE u \in uris : TRUE
       IN <<uri>> \o all(uris \ {uri})

\* validateAll(messageQueue, documents.all())
validateAllStampsZero(by) ==
  LET docs == all(opened)
      n == Len(docs)
  IN /\ nextId + n - 1 <= MaxMsgs
     /\ queue' = queue \o [i \in 1 .. n |->
                             Notification(nextId + i - 1, ValidateMethod,
                                          LiveParam(docs[i]), 0)]
     /\ timer' = nextTimer(timer, queue')
     /\ immediates' = nextImmediates(timer, immediates, queue')
     /\ nextId' = nextId + n
     /\ arrivalVersion' =
          [i \in MsgIds |->
             IF i \in nextId .. nextId + n - 1
             THEN documents[docs[i - nextId + 1]]
             ELSE arrivalVersion[i]]
     /\ validations' = IF n > 0 THEN validations \cup {by} ELSE validations
validateAll(by) ==
  LET docs == all(opened)
      n == Len(docs)
  IN /\ nextId + n - 1 <= MaxMsgs
     /\ queue' = queue \o [i \in 1 .. n |->
                             Notification(nextId + i - 1, ValidateMethod,
                                          LiveParam(docs[i]), documents[docs[i]])]
     /\ timer' = nextTimer(timer, queue')
     /\ immediates' = nextImmediates(timer, immediates, queue')
     /\ nextId' = nextId + n
     /\ arrivalVersion' =
          [i \in MsgIds |->
             IF i \in nextId .. nextId + n - 1
             THEN documents[docs[i - nextId + 1]]
             ELSE arrivalVersion[i]]
     /\ validations' = IF n > 0 THEN validations \cup {by} ELSE validations

\* connection.onDidChangeWatchedFiles; revalidate: a stylelint config file is
\* among the changes
DidChangeWatchedFiles(revalidate) ==
  /\ IF revalidate
     THEN validateAll("didChangeWatchedFiles")
     ELSE UNCHANGED <<queue, timer, immediates, nextId, arrivalVersion, validations>>
  /\ UNCHANGED <<notified, linting, published, config, opened, needsValidation, pending, lints, applyEdits, answers>>
  /\ UNCHANGED <<enqueueUnchanged, nonServerVars>>

\* connection.onDidChangeConfiguration (index.ts):
\* settings.clientConfigurationChanged(params), then validateAll
DidChangeConfiguration(present, stylelintplus) ==
  /\ clientConfigurationChanged(present, stylelintplus)
  /\ validateAll("didChangeConfiguration")
  /\ notified' = [present |-> present,
                  stylelintplus |-> IF present THEN stylelintplus ELSE NoOverrides]
  /\ UNCHANGED <<linting, published, config, opened, needsValidation, pending,
                 lints, applyEdits, answers>>
  /\ UNCHANGED <<enqueueUnchanged, fixVars, lintVars, codeActionVars>>

\* The setImmediate callback, with the handlers of validate.ts and commands.ts
\* up to their first await
HandlerDrain ==
  /\ mayStart
  /\ DrainStep("undefined", FALSE)
  /\ IF queue = <<>>
     THEN UNCHANGED <<pending, applyEdits>>
     ELSE LET message == Head(queue)
              uri == message.param.uri
              handler == handlerOf(message)
              called == popQueue(message).invoke /\ uri \in opened
          IN IF called /\ handler = ValidateHandler
             THEN /\ pending' = pending \cup {Waiting("validate", uri, message.id, "")}
                  /\ UNCHANGED applyEdits
             ELSE IF called /\ handler = ExecuteCommandHandler
                            /\ message.param.command = applyAutoFixes
             THEN /\ pending' = pending \cup {Waiting("applyAutoFixes", uri, message.id,
                                                      message.param.command)}
                  /\ UNCHANGED applyEdits
             ELSE IF called /\ handler = ExecuteCommandHandler
                            /\ message.param.command \in DisableRuleIds
             THEN /\ applyEdits' = Append(applyEdits,
                                          [id |-> message.id, uri |-> uri,
                                           command |-> message.param.command])
                  /\ pending' = pending \cup {Waiting("applyEdit", uri, message.id,
                                                      message.param.command)}
             ELSE UNCHANGED <<pending, applyEdits>>
  /\ UNCHANGED <<notified, linting, published, config, opened, needsValidation, lints, answers,
                 validations>>
  /\ UNCHANGED nonServerVars

\* the validate notification's handler after await settings.resolve, with
\* validate's call of the linter taken in the same step
ValidateResolved(p) ==
  /\ p \in pending /\ p.kind = "validate"
  /\ pending' = pending \ {p}
  /\ lints' = IF config.enable THEN lints \cup {[by |-> p.kind, fix |-> FALSE]}
              ELSE lints
  /\ UNCHANGED <<notified, linting, published, config, opened, needsValidation, applyEdits, answers,
                 validations>>
  /\ UNCHANGED <<queueVars, nonServerVars>>

\* the execute-command handler, applyAutoFixes, after await settings.resolve and
\* await autoFix; nonEmpty: autoFix returned edits
ApplyAutoFixesResolved(p, nonEmpty) ==
  /\ p \in pending /\ p.kind = "applyAutoFixes"
  /\ lints' = lints \cup {[by |-> p.kind, fix |-> TRUE]}
  /\ IF nonEmpty
     THEN /\ applyEdits' = Append(applyEdits,
                                  [id |-> p.id, uri |-> p.uri, command |-> p.command])
          /\ pending' = (pending \ {p}) \cup {Waiting("applyEdit", p.uri, p.id, p.command)}
     ELSE /\ pending' = pending \ {p}
          /\ UNCHANGED applyEdits
  /\ UNCHANGED <<notified, linting, published, config, opened, needsValidation, answers, validations>>
  /\ UNCHANGED <<queueVars, nonServerVars>>

\* result.applied, then document = documents.get(document.uri), if (document)
revalidatesWithoutStore(applied, inStore) == applied
revalidates(applied, inStore) == applied /\ inStore

\* the execute-command handler after await connection.workspace.applyEdit
ApplyEditAnswered(p, applied) ==
  /\ p \in pending /\ p.kind = "applyEdit"
  /\ pending' = pending \ {p}
  /\ answers' = Append(answers, [id |-> p.id, uri |-> p.uri, applied |-> applied,
                                 inStore |-> p.uri \in opened])
  /\ IF revalidates(applied, p.uri \in opened)
     THEN handlerValidates(p.uri, "executeCommand")
     ELSE UNCHANGED <<queue, timer, immediates, nextId, arrivalVersion, validations>>
  /\ UNCHANGED <<notified, linting, published, config, opened, needsValidation, lints, applyEdits>>
  /\ UNCHANGED <<enqueueUnchanged, nonServerVars>>

\* the promise of the execute-command handler fulfils once the handler returned
HandlerReturns(t) ==
  /\ \A p \in pending : p.id # t.id
  /\ ThenableSettles(t, [kind |-> "fulfilled", value |-> "undefined"])

\* every document resolves to the same settings, any of Configs
ValidateInit ==
  /\ QueueInit
  /\ FixIdle
  /\ LintInit
  /\ SettingsInit
  /\ CodeActionIdle
  /\ \E c \in Configs : ServerIdle(c)

\* the events of the document store and of the connection that validate.ts and
\* index.ts handle
NextValidate ==
  \/ \E u \in Uris : DidOpen(u)
  \/ \E u \in Uris : DidChangeContent(u)
  \/ \E u \in Uris, afterDelay \in BOOLEAN : WillSave(u, afterDelay)
  \/ \E u \in Uris : DidSave(u)
  \/ \E u \in Uris : DidClose(u)
  \/ \E u \in Uris : DocumentFormatting(u)
  \/ \E revalidate \in BOOLEAN : DidChangeWatchedFiles(revalidate)
  \/ DidChangeConfiguration(FALSE, NoOverrides)
  \/ \E p \in pending : DidOpenResolved(p)
  \/ \E p \in pending : DidChangeContentResolved(p)
  \/ \E p \in pending : WillSaveResolved(p)
  \/ \E p \in pending : DidSaveResolved(p)
  \/ \E p \in pending : DocumentFormattingResolved(p)
  \/ \E p \in pending : ValidateResolved(p)
  \/ HandlerDrain

SpecValidate == ValidateInit /\ [][NextValidate]_vars

\* the settings the execute-command handler is run under: the defaults, with
\* enable either way
CommandConfigs ==
  {[ConfigOf(defaultClientSettings) EXCEPT !.enable = enable] : enable \in BOOLEAN}

CommandInit ==
  /\ QueueInit
  /\ FixIdle
  /\ LintInit
  /\ SettingsInit
  /\ CodeActionIdle
  /\ \E c \in CommandConfigs : ServerIdle(c)

\* execute-command requests on documents that open and close
NextCommand ==
  \/ \E u \in Uris : DidOpen(u)
  \/ \E u \in Uris : DidClose(u)
  \/ \E u \in Uris, c \in Commands :
       ConnectionRequest(ExecuteCommandMethod, CommandParam(u, c))
  \/ \E p \in pending : DidOpenResolved(p)
  \/ \E p \in pending : ValidateResolved(p)
  \/ \E p \in pending, nonEmpty \in BOOLEAN : ApplyAutoFixesResolved(p, nonEmpty)
  \/ \E p \in pending, applied \in BOOLEAN : ApplyEditAnswered(p, applied)
  \/ \E t \in thenables : HandlerReturns(t)
  \/ HandlerDrain

SpecCommand == CommandInit /\ [][NextCommand]_vars

\* the lint function fails for documents while documents open and stylelint
\* configuration files change
NextRetry ==
  \/ \E uri \in LintUris : lintFuncCall(uri)
  \/ \E i \in 1 .. Len(lintCalls) : stylelintThrows(i)
  \/ \E u \in Uris : DidOpen(u)
  \/ \E p \in pending : DidOpenResolved(p)
  \/ \E revalidate \in BOOLEAN : DidChangeWatchedFiles(revalidate)

SpecRetry == Init /\ [][NextRetry]_vars

\* the validate notification's handler after await settings.resolve, up to
\* await lint in validate: the text of the document is read
ValidateLints(p) ==
  /\ p \in pending /\ p.kind = "validate"
  /\ pending' = pending \ {p}
  /\ IF config.enable
     THEN /\ linting' = linting \cup {[id |-> p.id, uri |-> p.uri,
                                       version |-> documents[p.uri]]}
          /\ lints' = lints \cup {[by |-> p.kind, fix |-> FALSE]}
          /\ UNCHANGED published
     ELSE /\ published' = [published EXCEPT ![p.uri] = Cleared]
          /\ UNCHANGED <<linting, lints>>
  /\ UNCHANGED <<notified, config, opened, needsValidation, applyEdits, answers,
                 validations>>
  /\ UNCHANGED <<queueVars, nonServerVars>>

\* validate after await lint: connection.sendDiagnostics with the warnings of
\* the text that was linted; warnings: the result has some
LintReturns(l, warnings) ==
  /\ l \in linting
  /\ linting' = linting \ {l}
  /\ published' = [published EXCEPT ![l.uri] =
                     [version |-> l.version,
                      diagnostics |-> IF warnings THEN "warnings" ELSE "empty"]]
  /\ UNCHANGED <<notified, config, opened, needsValidation, pending, lints,
                 applyEdits, answers, validations>>
  /\ UNCHANGED <<queueVars, nonServerVars>>

\* a document is opened, changed and closed while validations are in flight
NextPublish ==
  \/ \E u \in Uris : DidOpen(u)
  \/ \E u \in Uris : DidChangeContent(u)
  \/ \E u \in Uris : DidClose(u)
  \/ \E p \in pending : DidOpenResolved(p)
  \/ \E p \in pending : DidChangeContentResolved(p)
  \/ \E p \in pending : ValidateLints(p)
  \/ \E l \in linting, warnings \in BOOLEAN : LintReturns(l, warnings)
  \/ HandlerDrain

SpecPublish == Init /\ [][NextPublish]_vars

\* two documents, and a client that changes its configuration
ConfigureInit ==
  /\ QueueInitFor(LintUris)
  /\ FixIdle
  /\ LintInit
  /\ RestInit

\* the settings of one document are resolved, once, which fills the cache
NextConfigure ==
  \/ \E configuration \in BOOLEAN : initialize(configuration)
  \/ \E uri \in LintUris : resolveCalls = <<>> /\ resolve(uri)
  \/ \E u \in LintUris : DidOpen(u)
  \/ \E u \in LintUris : DidChangeContent(u)
  \/ \E u \in LintUris : DidClose(u)
  \/ \E p \in pending : DidOpenResolved(p)
  \/ \E p \in pending : DidChangeContentResolved(p)
  \/ \E present \in BOOLEAN, o \in ClientSettingsSent : DidChangeConfiguration(present, o)

SpecConfigure == ConfigureInit /\ [][NextConfigure]_vars

\* ------------------------------------------------------------------ claims
Entries == {drained[i] : i \in 1 .. Len(drained)}

\* C1: messages are removed from the queue in exactly the order in which they
\* were enqueued: the k-th message removed is the k-th enqueued, and the
\* pending queue holds the remaining ones in enqueue order, whatever handlers
\* are still in flight.
C1_DrainOrderIsEnqueueOrder ==
  /\ \A i \in 1 .. Len(drained) : drained[i].id = i
  /\ \A i \in 1 .. Len(queue) : queue[i].id = Len(drained) + i
  /\ nextId = Len(drained) + Len(queue) + 1

\* two later messages were drained while the first one's handler is in flight
C1_Witness ==
  /\ Len(drained) = 3
  /\ \E t \in thenables : t.id = 1

\* C2: a drained request whose registered lens no longer returns the version
\* stored at enqueue time is rejected with RequestCancelled and its handler is
\* never invoked.
C2_StaleRequestRejected ==
  \A e \in Entries :
    (e.isRequest /\ e.registered /\ ~e.current) =>
      /\ calls[e.id] = <<RequestCancelled>>
      /\ e.id \notin invoked
      /\ \A t \in thenables : t.id # e.id

\* a request that was stale, not cancelled, and rejected
C2_Witness ==
  \E e \in Entries :
    /\ e.isRequest /\ e.registered /\ ~e.current /\ ~e.cancelled
    /\ calls[e.id] = <<RequestCancelled>>

\* C3: a drained notification whose registered lens no longer returns the
\* version stored at enqueue time is removed silently: its handler is never
\* invoked, nothing is rejected or resolved for it, nothing is left in flight.
C3_StaleNotificationDropped ==
  \A e \in Entries :
    (~e.isRequest /\ e.registered /\ ~e.current) =>
      /\ e.id \notin invoked
      /\ calls[e.id] = <<>>
      /\ \A t \in thenables : t.id # e.id

\* a stale notification of a registered method was drained
C3_Witness ==
  \E e \in Entries : ~e.isRequest /\ e.registered /\ ~e.current

\* C4: a request whose token is cancelled when it is drained is rejected with
\* RequestCancelled and its handler is not invoked, even when its stored
\* version still equals what the lens returns.
C4_CancelledRequestRejected ==
  \A e \in Entries :
    (e.isRequest /\ e.cancelled) =>
      /\ calls[e.id] = <<RequestCancelled>>
      /\ e.id \notin invoked
      /\ \A t \in thenables : t.id # e.id

\* a cancelled request whose version was still current was rejected
C4_Witness ==
  \E e \in Entries :
    /\ e.isRequest /\ e.cancelled /\ e.registered /\ e.current
    /\ calls[e.id] = <<RequestCancelled>>

\* C5: a message whose method has no registered handler does not hang the
\* queue: when popQueue removes such a message and messages remain behind it,
\* a drain is armed for them (no further enqueue is needed to drain them).
C5_UnregisteredDoesNotHang ==
  [][ (/\ queue # <<>>
       /\ registrationOf(Head(queue)) = NoReg
       /\ Len(drained') = Len(drained) + 1
       /\ queue' # <<>>)
      => immediates' > 0 ]_vars

\* C6: after popQueue handled the head message in any way, next() has run:
\* whenever messages remain after a drain step, a drain is armed.
C6_DrainStepCallsNext ==
  [][ (Len(drained') = Len(drained) + 1 /\ queue' # <<>>)
      => (timer' /\ immediates' = 1) ]_vars

\* C7: next() arms a callback exactly when no drain is scheduled and the
\* queue is non-empty: an enqueue arms one iff the timer was not set, a drain
\* step arms at most one and only for a non-empty queue, and in every state
\* at most one callback is armed, the timer being set exactly then.
C7_AtMostOneDrainArmed ==
  [][ /\ immediates' <= 1
      /\ timer' <=> (immediates' = 1)
      /\ (nextId' = nextId + 1) =>
           /\ timer'
           /\ immediates' = IF timer THEN immediates ELSE immediates + 1
      /\ (Len(drained') = Len(drained) + 1) => (timer' => queue' # <<>>) ]_vars

\* next() was called by a second and a third enqueue while a drain was pending
C7_Witness ==
  /\ Len(queue) = 3
  /\ timer
  /\ immediates = 1

C9_VersionIsEnqueueSnapshot ==
  \A i \in 1 .. Len(queue) :
    queue[i].documentVersion = arrivalVersion[queue[i].id]

\* a request and a notification wait in the queue with the version of their
\* arrival while the document has moved on
C9_Witness ==
  /\ \E i \in 1 .. Len(queue) :
       queue[i].isRequest /\ queue[i].documentVersion # documents[queue[i].param.uri]
  /\ \E i \in 1 .. Len(queue) :
       ~queue[i].isRequest /\ queue[i].param.live
         /\ queue[i].documentVersion # documents[queue[i].param.uri]

\* C10: an execute-command request whose document changed version in the
\* store between its arrival and its drain is rejected as cancelled and the
\* command handler does not run.
C10_ExecuteCommandStaleRejected ==
  \A e \in Entries :
    (e.isRequest /\ e.method = ExecuteCommandMethod /\ e.storeChanged) =>
      /\ calls[e.id] = <<RequestCancelled>>
      /\ e.id \notin invoked

\* C11: the outcome of a request mirrors its handler: a thenable that rejects
\* with E has reject called with E, one that fulfils with V has resolve called
\* with V, and a handler that returns a value has the request resolved with
\* that value by the end of the drain step that called it.
C11_OutcomeMirrorsHandler ==
  /\ \A i \in MsgIds :
       results[i] # <<>> =>
         /\ Len(results[i]) = 1
         /\ calls[i] = <<IF results[i][1].kind = "rejected" THEN "reject" ELSE "resolve">>
         /\ args[i] = <<results[i][1].value>>
  /\ \A e \in Entries :
       (e.isRequest /\ dispatched[e.id] = SyncHandler) =>
         /\ results[e.id] # <<>>
         /\ results[e.id][1].kind = "value"

\* a thenable rejected with E2, another fulfilled with V, and a synchronous
\* handler returned V
C11_Witness ==
  /\ \E i \in MsgIds : results[i] = <<[kind |-> "rejected", value |-> "E2"]>>
  /\ \E i \in MsgIds : results[i] = <<[kind |-> "fulfilled", value |-> "V"]>>
  /\ \E i \in MsgIds : results[i] = <<[kind |-> "value", value |-> "V"]>>

\* C12: the queue does not wait for an asynchronous handler: the drain step
\* that starts a handler whose thenable is unsettled arms the next drain when
\* messages remain.
C12_DrainDoesNotWaitForThenable ==
  [][ (/\ Len(drained') = Len(drained) + 1
       /\ thenables' # thenables
       /\ queue' # <<>>)
      => (timer' /\ immediates' = 1) ]_vars

\* a later message's handler was started while an earlier one is in flight
C12_Witness ==
  \E t \in thenables : \E j \in invoked : j > t.id

\* C13: the last registration for a method wins: a drained message is checked
\* with the lens of the last registration and, when it is current, dispatched
\* to the handler of the last registration, never to an earlier one.
C13_LastRegistrationWins ==
  [][ (queue # <<>> /\ Len(drained') = Len(drained) + 1) =>
        LET message == Head(queue)
            last == IF message.isRequest
                    THEN lastRequestRegistration[message.method]
                    ELSE lastNotificationRegistration[message.method]
        IN /\ message.id \in invoked' => dispatched'[message.id] = last.handler
           /\ (last # NoReg /\ message.id \notin cancelled) =>
                (message.id \in invoked' <=>
                   message.documentVersion = VersionLens(last.versionLens, message.param))
    ]_vars

\* two messages of the same kind of the test method, the earlier dispatched to
\* the handler registered first, the later to the one registered over it
C13_Witness ==
  \E e1 \in Entries, e2 \in Entries :
    /\ e1.id < e2.id
    /\ e1.isRequest = e2.isRequest
    /\ e1.method = TestMethod /\ e2.method = TestMethod
    /\ dispatched[e1.id] = SyncHandler
    /\ dispatched[e2.id] = AsyncHandler

\* The edits the diff merger is to return, computed from the runs of the diff:
\* a run is a maximal stretch of DELETE and INSERT spans with no EQUAL span in it.
IsChange(spans, i) == spans[i][1] # EQUAL
RunStarts(spans) ==
  {i \in 1 .. Len(spans) : IsChange(spans, i) /\ (i = 1 \/ ~IsChange(spans, i - 1))}
RunEnd(spans, i) ==
  CHOOSE j \in i .. Len(spans) :
    /\ \A k \in i .. j : IsChange(spans, k)
    /\ (j = Len(spans) \/ ~IsChange(spans, j + 1))
RunEdit(spans, i) ==
  LET run == SubSeq(spans, i, RunEnd(spans, i))
      offset == Len(Before(SubSeq(spans, 1, i - 1)))
  IN [start |-> offset,
      end |-> offset + Len(Keep(run, {DELETE})),
      newText |-> Keep(run, {INSERT})]
RECURSIVE RunEdits(_, _)
RunEdits(spans, starts) ==
  IF starts = {} THEN <<>>
  ELSE LET i == CHOOSE m \in starts : \A n \in starts : m <= n
       IN <<RunEdit(spans, i)>> \o RunEdits(spans, starts \ {i})
ExpectedEdits(spans) == RunEdits(spans, RunStarts(spans))
ExampleEdits ==
  << [start |-> 3, end |-> 6, newText |-> <<>>],
     [start |-> 9, end |-> 9, newText |-> <<"0", "1", "2">>],
     [start |-> 12, end |-> 18, newText |-> <<"9", "0", "1", "5", "6", "7">>] >>

\* C14: every maximal run of delete and insert spans with no equal span between
\* them becomes exactly one edit, whose range is the deleted ranges joined and
\* whose new text is the inserted texts joined; the diff of the example yields
\* delete [3,6), insert "012" at 9, replace [12,18) with "901567".
C14_RunsCollapseIntoOneEdit ==
  (fixPc = "done" /\ ~ignored) =>
    /\ edits = ExpectedEdits(diff)
    /\ Len(edits) = Cardinality(RunStarts(diff))
    /\ (diff = ExampleDiff => edits = ExampleEdits)
C14_Witness ==
  /\ fixPc = "done"
  /\ ~ignored
  /\ diff = ExampleDiff
  /\ edits = ExampleEdits

\* C15: the returned edits are in increasing order of start offset and no two
\* of them overlap or touch: each edit ends before the next one starts.
C15_EditsDoNotTouch ==
  fixPc = "done" =>
    \A i \in 1 .. Len(edits) - 1 : edits[i].end < edits[i + 1].start
C15_Witness ==
  /\ fixPc = "done"
  /\ Len(edits) >= 2
  /\ \E i \in 1 .. Len(diff) - 1 : diff[i][1] = DELETE /\ diff[i + 1][1] = INSERT

\* C16: when the diff has no insert and no delete span (the output is the
\* original text), autoFix returns no edits.
C16_NoChangeNoEdits ==
  (fixPc = "done" /\ \A i \in 1 .. Len(diff) : diff[i][1] = EQUAL) =>
    edits = <<>>
C16_Witness ==
  /\ fixPc = "done"
  /\ ~ignored
  /\ diff # <<>>
  /\ \A i \in 1 .. Len(diff) : diff[i][1] = EQUAL
  /\ output = originalText
  /\ diffCalls > 0
  /\ edits = <<>>

\* C17: when the linter reports the file as ignored, autoFix returns no edits
\* and never calls the diff.
C17_IgnoredSkipsDiff ==
  (fixPc = "done" /\ ignored) => (edits = <<>> /\ diffCalls = 0)
C17_Witness ==
  /\ fixPc = "done"
  /\ ignored
  /\ output # originalText
  /\ edits = <<>>

C19_EmptyOutputSkipsDiff ==
  (fixPc = "done" /\ ~ignored /\ output = <<>>) =>
    (edits = <<>> /\ diffCalls = 0)

\* C20: once stylelint has thrown for a uri, the error is caught (the call
\* returns the placeholder, it does not reject), the uri is marked failed, and
\* each later call for that uri returns the placeholder without invoking
\* stylelint, until clearFailedDocuments is called; calls after that invoke
\* stylelint again.
C20_FailedUriShortCircuits ==
  /\ thrown \subseteq failedDocuments
  /\ \A i \in 1 .. Len(lintCalls) :
       LET call == lintCalls[i]
       IN /\ call.state \in {"awaiting", "returned"}
          /\ call.afterThrow =>
               (~call.invoked /\ call.state = "returned" /\ call.value = Placeholder)
          /\ ~call.afterThrow => call.invoked
C20_Witness ==
  \E i, j, k \in 1 .. Len(lintCalls) :
    /\ i < j /\ j < k
    /\ lintCalls[i].uri = lintCalls[j].uri /\ lintCalls[j].uri = lintCalls[k].uri
    /\ lintCalls[i].invoked /\ lintCalls[i].state = "returned"
    /\ lintCalls[i].value = Placeholder
    /\ lintCalls[j].afterThrow /\ ~lintCalls[j].invoked
    /\ ~lintCalls[k].afterThrow /\ lintCalls[k].invoked

\* C30: the timer is set when a drain is armed and cleared at the start of the
\* drain callback, before the head message is processed: a message enqueued by
\* a handler while it runs inside the drain step arms a new drain, and the
\* timer is never left set once its callback has run.
C30_TimerClearedBeforePopQueue ==
  [][ /\ (immediates' > immediates) => timer'
      /\ timer' => immediates' > 0
      /\ (Len(drained') = Len(drained) + 1 /\ nextId' = nextId + 1) =>
           (timer' /\ immediates' = 1 /\ queue' # <<>>) ]_vars
C30_Witness ==
  /\ drained # <<>>
  /\ timer
  /\ immediates = 1
  /\ Len(queue) = 1
  /\ queue[1].method = TestMethod
  /\ ~queue[1].isRequest
  /\ queue[1].param.live

\* The settings the README documents as defaults
DocumentedDefaults ==
  [autoFixOnFormat |-> FALSE,
   autoFixOnSave |-> FALSE,
   config |-> "undefined",
   configFile |-> "undefined",
   configOverrides |-> "undefined",
   enable |-> TRUE,
   validateOnSave |-> FALSE,
   validateOnType |-> TRUE]

\* C24: when the client supplies no overrides, the client settings in use are
\* the documented defaults: autoFixOnFormat false, autoFixOnSave false, enable
\* true, validateOnSave false, validateOnType true, config, configFile and
\* configOverrides unset.
C24_DefaultsAsDocumented ==
  /\ sent = NoOverrides => globalSettings = DocumentedDefaults
  /\ \A i \in 1 .. Len(resolveCalls) :
       (~resolveCalls[i].supported /\ sent = NoOverrides) =>
         \A k \in DOMAIN DocumentedDefaults :
           resolveCalls[i].value[k] = DocumentedDefaults[k]

\* C25: with configuration requests supported, resolve(document) leaves the
\* cache mapping the uri to the promise it returns; when nothing was cached it
\* calls getConfiguration once, with {scopeUri: uri, section: ""}, and when a
\* promise was cached it returns that promise and does not call getConfiguration.
C25_ResolveCachesPromise ==
  [][ (Len(resolveCalls') = Len(resolveCalls) + 1 /\ supportsConfigurationRequests) =>
        LET call == resolveCalls'[Len(resolveCalls')]
        IN /\ documentToSettings'[call.uri] = call.promise
           /\ call.promise # NoPromise
           /\ IF documentToSettings[call.uri] # NoPromise
              THEN /\ call.promise = documentToSettings[call.uri]
                   /\ getConfigurationCalls' = getConfigurationCalls
              ELSE /\ getConfigurationCalls' =
                        Append(getConfigurationCalls,
                               [scopeUri |-> call.uri, section |-> ""])
                   /\ \A u \in LintUris : documentToSettings[u] # call.promise ]_vars
\* a resolve answered from the cache, and one after the entry was invalidated
C25_Witness ==
  \E i, j, k \in 1 .. Len(resolveCalls) :
    /\ i < j /\ j < k
    /\ resolveCalls[i].supported /\ resolveCalls[j].supported /\ resolveCalls[k].supported
    /\ resolveCalls[i].uri = resolveCalls[j].uri /\ resolveCalls[j].uri = resolveCalls[k].uri
    /\ resolveCalls[i].promise = resolveCalls[j].promise
    /\ resolveCalls[k].promise # resolveCalls[j].promise
    /\ Len(getConfigurationCalls) = 2

\* C26: without support for configuration requests, resolve(document) returns
\* exactly the stored global settings and getConfiguration is not called.
C26_ResolveReturnsGlobalSettings ==
  [][ (Len(resolveCalls') = Len(resolveCalls) + 1 /\ ~supportsConfigurationRequests) =>
        /\ resolveCalls'[Len(resolveCalls')].value = globalSettings
        /\ getConfigurationCalls' = getConfigurationCalls ]_vars

\* The disable-rule actions of a result, and the shapes of a requested range
DisableEntries(result) ==
  {i \in 1 .. Len(result) : result[i].command \in DisableRuleIds}
WithinSingleLine(range) ==
  \/ range.start.line = range.end.line
  \/ (range.start.line + 1 = range.end.line /\ range.end.character = 0)
SpansWholeFile(range, lineCount) ==
  range.start.line = 0 /\ range.end.line \in {lineCount - 1, lineCount}
DiagnosedRules(diagnostics) ==
  {diagnostics[i].value : i \in {j \in 1 .. Len(diagnostics) :
                                   diagnostics[j].type = "string"
                                   /\ diagnostics[j].value # ""}}
ChosenSet(range, lineCount) ==
  IF WithinSingleLine(range)
  THEN {applyDisableRuleInline, applyDisableRuleToLine, applyDisableRuleToFile}
  ELSE IF SpansWholeFile(range, lineCount)
  THEN {applyDisableRuleToFile}
  ELSE {applyDisableRuleToRange, applyDisableRuleToFile}

\* C28: for each diagnosed rule the code-action handler offers exactly the
\* disable-rule commands of one set: the line set when the range is within one
\* line, else the whole-file set when it spans line 0 to the last line, else
\* the range set; nothing outside that set is returned, and no disable-rule
\* command at all when context.only leaves out quick fixes.
C28_DisableRuleSetByRange ==
  (caPc = "done" /\ caParams.exists) =>
    LET entries == DisableEntries(caResult)
        wanted == caParams.only.present => QuickFix \in caParams.only.kinds
        chosen == ChosenSet(caParams.range, caParams.lineCount)
    IN IF ~wanted
       THEN entries = {}
       ELSE /\ \A i \in entries :
                 /\ caResult[i].command \in chosen
                 /\ caResult[i].rule \in DiagnosedRules(caParams.diagnostics)
            /\ \A rule \in DiagnosedRules(caParams.diagnostics) :
                 \A command \in chosen :
                   Cardinality({i \in entries : /\ caResult[i].command = command
                                                 /\ caResult[i].rule = rule}) = 1
\* a one-line document: the range is within a line and spans the file
C28_Witness ==
  /\ caPc = "done"
  /\ caParams.exists
  /\ WithinSingleLine(caParams.range)
  /\ SpansWholeFile(caParams.range, caParams.lineCount)
  /\ Cardinality(DiagnosedRules(caParams.diagnostics)) = 2
  /\ Cardinality(DisableEntries(caResult)) = 6

\* C29: the code-action handler returns the applyAutoFixes action exactly when
\* the document is in the store, the range starts at line 0 and ends at line
\* lineCount or lineCount - 1, and context.only is absent or includes Source;
\* when the document is not in the store the result is empty.
C29_AutoFixActionForWholeFile ==
  caPc = "done" =>
    /\ (\E i \in 1 .. Len(caResult) : caResult[i].command = applyAutoFixes)
         <=> /\ caParams.exists
             /\ caParams.range.start.line = 0
             /\ caParams.range.end.line \in {caParams.lineCount, caParams.lineCount - 1}
             /\ (~caParams.only.present \/ Source \in caParams.only.kinds)
    /\ Cardinality({i \in 1 .. Len(caResult) : caResult[i].command = applyAutoFixes}) <= 1
    /\ ~caParams.exists => caResult = <<>>
C29_Witness ==
  /\ caPc = "done"
  /\ caParams.exists
  /\ caParams.range.end.line = caParams.lineCount
  /\ caParams.only.present
  /\ caResult # <<>>
  /\ caResult[1].command = applyAutoFixes

\* C21: with validateOnSave and validateOnType both false no linting that
\* publishes diagnostics ever occurs: every call of the linter is an auto-fix
C21_NoLintingWhenBothOff ==
  (~config.validateOnSave /\ ~config.validateOnType) => \A l \in lints : l.fix

\* C22: with enable and autoFixOnSave true, the onDidSave handler, once past
\* its await, enqueues a validation notification for the saved document,
\* whatever validateOnSave is
C22_SaveValidatesWhenAutoFix ==
  [][\A p \in pending :
       (p.kind = "didSave" /\ p \notin pending'
        /\ config.enable /\ config.autoFixOnSave)
       => queue' = Push(queue, Notification(nextId, ValidateMethod,
                                            LiveParam(p.uri), documents[p.uri]))]_vars

\* a save was validated with validateOnSave false and no auto-fix having put
\* the document in needsValidation
C22_Witness ==
  /\ config.enable /\ config.autoFixOnSave /\ ~config.validateOnSave
  /\ lints = {}
  /\ "didSave" \in validations

\* C23: with enable false no path calls the linter or applies auto-fix edits
C23_DisabledMeansNoLintNoFix ==
  ~config.enable =>
    /\ lints = {}
    /\ \A i \in 1 .. Len(applyEdits) : applyEdits[i].command # applyAutoFixes

\* the applyEdit of a step that sends one
SentApplyEdit == applyEdits'[Len(applyEdits')]

\* the client's answer a step receives
ReceivedAnswer == answers'[Len(answers')]

\* a step enqueues exactly one validation of the document
EnqueuesOneValidation(uri) ==
  queue' = Push(queue, Notification(nextId, ValidateMethod, LiveParam(uri),
                                    documents[uri]))

\* a request gets one applyEdit, under its document's uri
OneApplyEditPerRequest ==
  applyEdits' # applyEdits =>
    /\ applyEdits' = Append(applyEdits, SentApplyEdit)
    /\ \A i \in 1 .. Len(applyEdits) : applyEdits[i].id # SentApplyEdit.id
    /\ SentApplyEdit.id \in invoked'
    /\ \/ /\ queue # <<>>
          /\ Head(queue).id = SentApplyEdit.id
          /\ Head(queue).param.uri = SentApplyEdit.uri
       \/ \E p \in pending :
            /\ p.kind = "applyAutoFixes"
            /\ p.id = SentApplyEdit.id
            /\ p.uri = SentApplyEdit.uri

\* C27 as stated: one applyEdit per request; an applied edit enqueues exactly
\* one validation, an edit not applied none
C27_AppliedRevalidatesOnce ==
  [][/\ OneApplyEditPerRequest
     /\ answers' # answers =>
          IF ReceivedAnswer.applied
          THEN EnqueuesOneValidation(ReceivedAnswer.uri)
          ELSE queue' = queue]_vars

\* C27 amended: an applied edit enqueues exactly one validation if the document
\* is still in the store when it is fetched again; an edit not applied, or one
\* of a document no longer in the store, enqueues none
C27_AppliedRevalidatesOnceIfInStore ==
  [][/\ OneApplyEditPerRequest
     /\ answers' # answers =>
          IF ReceivedAnswer.applied /\ ReceivedAnswer.uri \in opened
          THEN EnqueuesOneValidation(ReceivedAnswer.uri)
          ELSE queue' = queue]_vars

\* one applied edit was revalidated, another was of a document closed meanwhile
C27_Witness ==
  /\ "executeCommand" \in validations
  /\ \E i \in 1 .. Len(answers) : answers[i].applied /\ answers[i].inStore
  /\ \E i \in 1 .. Len(answers) : answers[i].applied /\ ~answers[i].inStore
  /\ \E i \in 1 .. Len(applyEdits) : applyEdits[i].command = applyAutoFixes

\* C31: an enqueue processes nothing: it appends its message to the queue,
\* calls no handler, rejects no request and leaves a drain callback armed; a
\* message is drained only by an armed callback, which enqueues nothing, so the
\* messages enqueued before the callback runs are all in the queue
C31_EnqueueNeverDrains ==
  [][/\ nextId' # nextId =>
          /\ Len(queue') = Len(queue) + 1
          /\ SubSeq(queue', 1, Len(queue)) = queue
          /\ queue'[Len(queue')].id = nextId
          /\ drained' = drained
          /\ invoked' = invoked
          /\ calls'[nextId] = <<>>
          /\ \A i \in MsgIds :
               \A k \in 1 .. Len(calls'[i]) :
                 k > Len(calls[i]) => calls'[i][k] # RequestCancelled
          /\ timer'
          /\ immediates' > 0
     /\ drained' # drained =>
          /\ immediates > 0
          /\ nextId' = nextId
          /\ Len(drained') = Len(drained) + 1
    ]_vars

\* two messages wait in the queue behind one armed callback, none processed
C31_Witness ==
  /\ Len(queue) >= 2
  /\ drained = <<>>
  /\ invoked = {}
  /\ immediates = 1

\* the messages a step enqueues
Enqueued == nextId' - nextId

\* C32: a drain callback that finds the queue non-empty removes exactly its
\* head and invokes at most one handler, that of the head; the queue shrinks by
\* one per drain and grows by one per enqueue (a handler that enqueues while it
\* runs adds its message behind the rest)
C32_OneMessagePerDrain ==
  [][/\ Enqueued \in {0, 1}
     /\ drained' # drained =>
          /\ queue # <<>>
          /\ Len(drained') = Len(drained) + 1
          /\ drained'[Len(drained')].id = Head(queue).id
          /\ Len(queue') = Len(queue) - 1 + Enqueued
          /\ SubSeq(queue', 1, Len(queue) - 1) = Tail(queue)
          /\ invoked' \ invoked \subseteq {Head(queue).id}
     /\ drained' = drained =>
          /\ Len(queue') = Len(queue) + Enqueued
          /\ SubSeq(queue', 1, Len(queue)) = queue
          /\ invoked' = invoked
    ]_vars

\* a callback drained the head of a longer queue and called its handler
C32_Witness ==
  /\ Len(drained) = 1
  /\ Len(queue) >= 1
  /\ invoked = {drained[1].id}

\* the offset in the original text at which span i of a diff begins
OffsetOf(spans, i) == Len(Before(SubSeq(spans, 1, i - 1)))

\* C33: an equal span closes the open edit: a delete or insert span that
\* follows an equal span starts an edit of its own at its offset, and the edit
\* before it ends short of that offset
C33_EqualClosesEdit ==
  (fixPc = "done" /\ ~ignored) =>
    \A i \in 2 .. Len(diff) :
      (diff[i - 1][1] = EQUAL /\ IsChange(diff, i)) =>
        \E k \in 1 .. Len(edits) :
          /\ edits[k].start = OffsetOf(diff, i)
          /\ k > 1 => edits[k - 1].end < edits[k].start
          /\ \A j \in 1 .. k - 1 : edits[j].start < edits[k].start

\* a change, an equal span and another change gave two edits
C33_Witness ==
  /\ fixPc = "done"
  /\ ~ignored
  /\ Len(edits) = 2
  /\ \E i \in 2 .. Len(diff) - 1 :
       IsChange(diff, i - 1) /\ diff[i][1] = EQUAL /\ IsChange(diff, i + 1)

\* the offset a client reads a position of a text as
offsetAt(text, position) ==
  LET lines == LineOf(text, Len(text))
      lineOffset == LineStart(text, position.line)
      nextLineOffset == IF position.line < lines
                        THEN LineStart(text, position.line + 1)
                        ELSE Len(text)
      offset == lineOffset + position.character
  IN IF position.line > lines THEN Len(text)
     ELSE IF offset > nextLineOffset THEN nextLineOffset
     ELSE offset

\* a client applying text edits to a text, every range read against the
\* original text: the edits are taken from the last to the first
RECURSIVE ApplyToOriginal(_, _, _)
ApplyToOriginal(original, text, textEdits) ==
  IF textEdits = <<>> THEN text
  ELSE LET n == Len(textEdits)
           edit == textEdits[n]
           start == offsetAt(original, edit.range.start)
           end == offsetAt(original, edit.range.end)
       IN ApplyToOriginal(original,
                          SubSeq(text, 1, start) \o edit.newText
                            \o SubSeq(text, end + 1, Len(text)),
                          SubSeq(textEdits, 1, n - 1))

\* C37: the edits autoFix returns for a diff of the original text into the
\* output, applied to the original text with every range read against the
\* original text, give the output
C37_EditsRoundTrip ==
  (fixPc = "done" /\ ~ignored) =>
    ApplyToOriginal(originalText, originalText, TextEdits(originalText, edits))
      = output

\* two edits, the second beyond a line break, turned the text into the output
C37_Witness ==
  /\ fixPc = "done"
  /\ ~ignored
  /\ Len(edits) >= 2
  /\ TextEdits(originalText, edits)[Len(edits)].range.start.line > 0
  /\ output # originalText
  /\ ApplyToOriginal(originalText, originalText, TextEdits(originalText, edits))
       = output

\* C34: when the lint function returned the placeholder, validate and autoFix
\* do nothing and do not throw
C34_PlaceholderDoesNothing ==
  \A o \in lintOutcomes :
    lintCalls[o.call].value = Placeholder => o.outcome = "returned"

\* C35: when a stylelint configuration file changes, the set of failed
\* documents is cleared before the open documents are validated again
C35_ConfigFileChangeClearsFailed ==
  [][("didChangeWatchedFiles" \in validations' \ validations)
       => failedDocuments' = {}]_vars

\* a step that handles a didChangeConfiguration notification, as far as the
\* state shows one: notified' holds its params
ConfigurationChanges ==
  \/ notified' # notified
  \/ globalSettings' # globalSettings
  \/ "didChangeConfiguration" \in validations' \ validations

\* one validation notification per open document, stamped with its version
ValidatesEveryOpenDocument ==
  /\ Len(queue') = Len(queue) + Cardinality(opened)
  /\ SubSeq(queue', 1, Len(queue)) = queue
  /\ \A u \in opened :
       \E i \in Len(queue) + 1 .. Len(queue') :
         /\ ~queue'[i].isRequest
         /\ queue'[i].method = ValidateMethod
         /\ queue'[i].param = LiveParam(u)
         /\ queue'[i].documentVersion = documents[u]

\* C36 as stated: the cache is cleared when configuration requests are
\* supported, otherwise the global settings become the defaults merged with the
\* stylelintplus section; then every open document is validated
C36_ConfigurationChangeRevalidates ==
  [][ConfigurationChanges =>
       /\ IF supportsConfigurationRequests
          THEN /\ documentToSettings' = [u \in LintUris |-> NoPromise]
               /\ globalSettings' = globalSettings
          ELSE /\ documentToSettings' = documentToSettings
               /\ globalSettings' =
                    Spread(defaultClientSettings, notified'.stylelintplus)
       /\ ValidatesEveryOpenDocument]_vars

\* C36 amended: without support for configuration requests the global settings
\* are replaced only if the notification has a stylelintplus section, and are
\* left as they are if it has none
C36_ConfigurationChangeWithSectionRevalidates ==
  [][ConfigurationChanges =>
       /\ IF supportsConfigurationRequests
          THEN /\ documentToSettings' = [u \in LintUris |-> NoPromise]
               /\ globalSettings' = globalSettings
          ELSE /\ documentToSettings' = documentToSettings
               /\ globalSettings' =
                    IF notified'.present
                    THEN Spread(defaultClientSettings, notified'.stylelintplus)
                    ELSE globalSettings
       /\ ValidatesEveryOpenDocument]_vars

\* a notification emptied a cache that held an entry, and the two open
\* documents were validated
C36_Witness ==
  /\ supportsConfigurationRequests
  /\ resolveCalls # <<>>
  /\ resolveCalls[1].promise # NoPromise
  /\ \A u \in LintUris : documentToSettings[u] = NoPromise
  /\ opened = LintUris
  /\ "didChangeConfiguration" \in validations
  /\ Len(queue) >= 2
  /\ queue[Len(queue)].param.uri # queue[Len(queue) - 1].param.uri

\* sendDiagnostics with diagnostics computed by the linter from a version
FromLint(publication) == publication.diagnostics \in {"empty", "warnings"}

\* C38: once diagnostics computed from a version of a document were published,
\* diagnostics computed from an older version are not published for it
C38_DiagnosticsNeverGoBack ==
  [][\A u \in DOMAIN published :
       (published'[u] # published[u] /\ FromLint(published[u])
        /\ FromLint(published'[u]))
       => published'[u].version >= published[u].version]_vars

\* C39: diagnostics published for a document that is closed are the empty list
C39_NothingAfterClose ==
  [][\A u \in DOMAIN published :
       (published'[u] # published[u] /\ u \notin opened')
       => published'[u].diagnostics \in {"cleared", "empty"}]_vars

====
